---------------------------- MODULE Spec2Model ----------------------------
(***************************************************************************)
(* Model of the sleep-apnea dashboard prototype (prototype.py).            *)
(*                                                                         *)
(* The parts of the program that are modelled:                             *)
(*   - parse_nox_report, the regular-expression extractor of the nine      *)
(*     report metrics, with the module-level loading of the three night    *)
(*     reports and the arithmetic update_dashboard does on them;           *)
(*   - the 30-second window navigation over the signal table               *)
(*     (update_window, create_manufacturing_timeline) and the full-night   *)
(*     view (create_fullnight_timeline);                                   *)
(*   - position_angle_to_category;                                         *)
(*   - the callbacks of concurrent sessions on the loaded module.          *)
(*                                                                         *)
(* A report text is a sequence of one-character strings, and every         *)
(* regular expression of parse_nox_report is evaluated on it character by  *)
(* character.  Python floats are modelled as exact non-negative rationals  *)
(* [num, den]; binary rounding of the float arithmetic is not modelled.    *)
(***************************************************************************)
EXTENDS Integers, Sequences, FiniteSets, TLC

VARIABLES
    \* one call of parse_nox_report
    file,       \* the report file parse_nox_report is called on
    pc,         \* "idle", "call" before the call, then "returned" or "raised"
    data,       \* the record the call returned
    matched,    \* the fields whose pattern matched in the call
    \* the module as it loads, and update_dashboard
    fs,                     \* the three report files, by night
    lpc,                    \* the statement the module load stands at
    nox_baseline,           \* the module-level records of the three nights
    nox_night2,
    nox_night3,
    loaded_by,              \* by night: "parse" or "fallback", who built the record
    nights_data_generated,  \* the list create_night_variations returned
    main_content,           \* what update_dashboard put into main-content
    \* the timeline of the signal table
    signals,            \* the full-resolution signal table
    signals_fullnight,  \* the downsampled signal table
    patient_dropdown,   \* the value of the patient dropdown
    current_window,     \* the current-window store
    window_indicator,   \* the text update_window wrote
    view_mode,          \* the view-mode store
    view_toggle_btn,    \* the label of the view toggle button
    n_clicks,           \* the n_clicks of the view toggle button
    navigation_controls,\* the display style of the navigation controls
    timeline_graph,     \* the figure of the timeline graph
    \* one call of position_angle_to_category
    angle,              \* the tilt angle, in degrees
    position_category,  \* the category the call returned
    \* callbacks of two browser sessions on the one server
    pending,            \* the callback the session has in flight, with its arguments
    peer,               \* the stores of a second session
    \* the page navigation of prototype_v2.py and app_v2.py
    variant,            \* the application that serves the page
    current_page,       \* the current-page store
    nav_classes,        \* the className of the six sidebar items
    nav_n_clicks,       \* the n_clicks of the six sidebar items
    \* the overview page of prototype_v2.py
    signals_with_survey,\* the merged signal table of prototype_v2.py
    overview_patient,   \* the patient the overview page is made for
    overview_page,      \* what create_overview_page returned
    \* one click on a -10 / +10 button next to ten clicks on previous / next
    jump_button,        \* the single-step button that is clicked ten times
    jump_from,          \* the stored window index before the first click
    jump_clicks,        \* the clicks on the single-step button so far
    jumped              \* the index the ten-step button gives from jump_from

parseVars == <<file, pc, data, matched>>

loadVars == <<fs, lpc, nox_baseline, nox_night2, nox_night3, loaded_by,
              nights_data_generated, main_content>>

windowVars == <<signals, signals_fullnight, patient_dropdown, current_window,
                window_indicator, view_mode, view_toggle_btn, n_clicks,
                navigation_controls, timeline_graph>>

positionVars == <<angle, position_category>>

sessionVars == <<pending, peer>>

navVars == <<variant, current_page, nav_classes, nav_n_clicks>>

overviewVars == <<signals_with_survey, overview_patient, overview_page>>

v2Vars == <<navVars, overviewVars>>

jumpVars == <<jump_button, jump_from, jump_clicks, jumped>>

vars == <<file, pc, data, matched, fs, lpc, nox_baseline, nox_night2,
          nox_night3, loaded_by, nights_data_generated, main_content,
          signals, signals_fullnight, patient_dropdown, current_window,
          window_indicator, view_mode, view_toggle_btn, n_clicks,
          navigation_controls,
          timeline_graph, angle, position_category, pending, peer,
          variant, current_page, nav_classes, nav_n_clicks,
          signals_with_survey, overview_patient, overview_page,
          jump_button, jump_from, jump_clicks, jumped>>

(***************************************************************************)
(* Characters and rationals                                                *)
(***************************************************************************)

DigitChars == <<"0", "1", "2", "3", "4", "5", "6", "7", "8", "9">>

IsDigit(c) == \E d \in 1..10 : DigitChars[d] = c

DigitVal(c) == (CHOOSE d \in 1..10 : DigitChars[d] = c) - 1

\* Python's \s on the characters a report holds.
IsSpace(c) == c \in {" ", "\t", "\n"}

\* The character at position i, or "EOF" past the end of the text.
At(s, i) == IF i >= 1 /\ i <= Len(s) THEN s[i] ELSE "EOF"

Rat(n, d) == [num |-> n, den |-> d]

RatEq(a, b) == a.num * b.den = b.num * a.den

RatIsZero(a) == a.num = 0

Max(a, b) == IF a >= b THEN a ELSE b

Min(a, b) == IF a <= b THEN a ELSE b

RECURSIVE Pow10(_)
Pow10(k) == IF k = 0 THEN 1 ELSE 10 * Pow10(k - 1)

\* int(x) of a non-negative float x = n/d: truncation toward zero.
IntTrunc(n, d) == n \div d

\* round(x) of Python 3 for a non-negative x = n/d: nearest integer, ties to even.
Round(n, d) ==
    LET q == n \div d
        r == n % d
    IN  IF 2 * r < d THEN q
        ELSE IF 2 * r > d THEN q + 1
        ELSE IF q % 2 = 0 THEN q ELSE q + 1

(***************************************************************************)
(* Regular-expression pieces, as re evaluates them                         *)
(***************************************************************************)

\* The literal lit occurs in s at position i.
LitAt(s, i, lit) ==
    /\ i >= 1
    /\ i + Len(lit) - 1 <= Len(s)
    /\ \A k \in 1..Len(lit) : s[i + k - 1] = lit[k]

\* \d* from position i, greedy: the first position at or after i holding no digit.
RECURSIVE DigitsEnd(_, _)
DigitsEnd(s, i) == IF IsDigit(At(s, i)) THEN DigitsEnd(s, i + 1) ELSE i

\* \s* from position i, greedy: the first position at or after i holding no space.
RECURSIVE SpacesEnd(_, _)
SpacesEnd(s, i) == IF IsSpace(At(s, i)) THEN SpacesEnd(s, i + 1) ELSE i

\* (\d+\.?\d*) from position i, greedy: the position after the number, or 0
\* when no digit stands at i.  A shorter match of the group ends before a
\* digit or a dot, which none of the patterns accepts next, so backtracking
\* into the group never produces another match.
NumberEnd(s, i) ==
    IF ~IsDigit(At(s, i)) THEN 0
    ELSE LET e1 == DigitsEnd(s, i)
         IN  IF At(s, e1) = "." THEN DigitsEnd(s, e1 + 1) ELSE e1

\* The value of the digits s[i..j-1] as an integer: int(group).
RECURSIVE IntOf(_, _, _)
IntOf(s, i, j) ==
    IF i >= j THEN 0 ELSE IntOf(s, i, j - 1) * 10 + DigitVal(s[j - 1])

\* FloatOf with the fraction of the group dropped.
FloatOf_integer_part(s, i, j) == Rat(IntOf(s, i, DigitsEnd(s, i)), 1)

\* float(group) of a group s[i..j-1] matching \d+\.?\d*.
FloatOf(s, i, j) ==
    LET e1 == DigitsEnd(s, i)
    IN  IF e1 >= j THEN Rat(IntOf(s, i, j), 1)
        ELSE Rat(IntOf(s, i, e1) * Pow10(j - e1 - 1) + IntOf(s, e1 + 1, j),
                 Pow10(j - e1 - 1))

\* The patterns without the optional quote.
AfterQuote_no_quote(s, p) == p

\* "?  at position p: the position after the optional quote.  The labels start
\* with a letter, so the quote is consumed whenever it is there.
AfterQuote(s, p) == IF At(s, p) = "\"" THEN p + 1 ELSE p

\* Position p is the start of a line (the ^ of re.MULTILINE).
LineStart(s, p) == p = 1 \/ At(s, p - 1) = "\n"

\* Position p is the end of a line (the $ of re.MULTILINE).
LineEnd(s, p) == p = Len(s) + 1 \/ At(s, p) = "\n"

\* The least element of a non-empty set of positions.
MinOf(S) == CHOOSE p \in S : \A q \in S : p <= q

\* A group is <<first, afterLast>>; NoGroup stands for a failed match.
NoGroup == <<>>

(***************************************************************************)
(* The nine patterns of parse_nox_report                                   *)
(***************************************************************************)

\* The label texts of the nine patterns.
L_ahi == <<"A","p","n","e","a","s"," ","+"," ","H","y","p","o","p","n","e","a","s",
           " ","(","A","H",")",":">>

L_odi == <<"O","x","y","g","e","n"," ","D","e","s","a","t","u","r","a","t","i","o","n",
           " ","I","n","d","e","x"," ","(","O","D","I",")",":">>

L_avg_spo2 == <<"A","v","e","r","a","g","e"," ","S","p","O","2",":">>

L_min_spo2 == <<"M","i","n","i","m","u","m"," ","S","p","O","2",":">>

L_sleep_time == <<"T","o","t","a","l"," ","S","l","e","e","p"," ","T","i","m","e",
                  " ","(","T","S","T",")",":">>

L_supine == <<"S","u","p","i","n","e"," ","(","i","n"," ","T","S","T",")",":">>

L_apneas == <<"A","p","n","e","a","s",":">>

L_arousal == <<"A","r","o","u","s","a","l"," ","i","n","d","e","x"," ","i","n",
               " ","T","S","T",":">>

U_per_hour == <<"/","h">>

U_percent == <<"%">>

\* "?label\s+(\d+\.?\d*)\s*unit tried at position p (gap: the \s* before the
\* unit is part of the pattern): group 1, or NoGroup.
MatchLabelled(s, p, label, unit, gap) ==
    LET a == AfterQuote(s, p)
        b == a + Len(label)
        c == SpacesEnd(s, b)
        e == NumberEnd(s, c)
        u == IF gap THEN SpacesEnd(s, e) ELSE e
    IN  IF LitAt(s, a, label) /\ c > b /\ e # 0 /\ LitAt(s, u, unit)
        THEN <<c, e>> ELSE NoGroup

\* "?Total Sleep Time \(TST\):\s+(\d+)h\s+(\d+)m tried at position p: groups
\* 1 and 2 as <<first1, after1, first2, after2>>, or NoGroup.
MatchSleepTime(s, p) ==
    LET a == AfterQuote(s, p)
        b == a + Len(L_sleep_time)
        c == SpacesEnd(s, b)
        e == DigitsEnd(s, c)
        f == SpacesEnd(s, e + 1)
        g == DigitsEnd(s, f)
    IN  IF /\ LitAt(s, a, L_sleep_time)
           /\ c > b /\ e > c /\ At(s, e) = "h"
           /\ f > e + 1 /\ g > f /\ At(s, g) = "m"
        THEN <<c, e, f, g>> ELSE NoGroup

\* The characters s[b..i-1] hold no line break: .*? can cover them.
NoBreak(s, b, i) == \A k \in b..(i - 1) : s[k] # "\n"

\* "?Supine \(in TST\):.*?(\d+\.?\d*)\s*% tried at position p: the lazy .*?
\* takes the first number of the line that a % follows.
MatchSupine(s, p) ==
    LET a == AfterQuote(s, p)
        b == a + Len(L_supine)
        ok(i) == /\ NoBreak(s, b, i)
                 /\ NumberEnd(s, i) # 0
                 /\ LitAt(s, SpacesEnd(s, NumberEnd(s, i)), U_percent)
    IN  IF ~LitAt(s, a, L_supine) THEN NoGroup
        ELSE LET hits == {i \in b..Len(s) : ok(i)}
             IN  IF hits = {} THEN NoGroup
                 ELSE <<MinOf(hits), NumberEnd(s, MinOf(hits))>>

\* MatchApneaCount without the \s*$ that ends its pattern.
MatchApneaCount_no_line_end(s, p) ==
    LET a == AfterQuote(s, p)
        b == a + Len(L_apneas)
        ok(i) == NoBreak(s, b, i) /\ IsDigit(At(s, i))
    IN  IF ~LitAt(s, a, L_apneas) THEN NoGroup
        ELSE LET hits == {i \in b..Len(s) : ok(i)}
             IN  IF hits = {} THEN NoGroup
                 ELSE <<MinOf(hits), DigitsEnd(s, MinOf(hits))>>

\* "?Apneas:.*?(\d+)\s*$ tried at position p (re.MULTILINE): the lazy .*?
\* takes the first digit run of the line after which only spaces stand before
\* a line end; \s* may give back spaces until $ holds.
MatchApneaCount(s, p) ==
    LET a == AfterQuote(s, p)
        b == a + Len(L_apneas)
        ok(i) == /\ NoBreak(s, b, i)
                 /\ IsDigit(At(s, i))
                 /\ \E g \in DigitsEnd(s, i)..SpacesEnd(s, DigitsEnd(s, i)) :
                        LineEnd(s, g)
    IN  IF ~LitAt(s, a, L_apneas) THEN NoGroup
        ELSE LET hits == {i \in b..Len(s) : ok(i)}
             IN  IF hits = {} THEN NoGroup
                 ELSE <<MinOf(hits), DigitsEnd(s, MinOf(hits))>>

\* re.search(pattern, content): the match at the first position where the
\* pattern matches, or NoGroup (Python's None).
Search(s, M(_)) ==
    LET hits == {p \in 1..Len(s) : M(p) # NoGroup}
    IN  IF hits = {} THEN NoGroup ELSE M(MinOf(hits))

ahi_match(s) ==
    LET M(p) == MatchLabelled(s, p, L_ahi, U_per_hour, TRUE) IN Search(s, M)

odi_match(s) ==
    LET M(p) == MatchLabelled(s, p, L_odi, U_per_hour, TRUE) IN Search(s, M)

avg_spo2_match(s) ==
    LET M(p) == MatchLabelled(s, p, L_avg_spo2, U_percent, TRUE) IN Search(s, M)

min_spo2_match(s) ==
    LET M(p) == MatchLabelled(s, p, L_min_spo2, U_percent, TRUE) IN Search(s, M)

sleep_time_match(s) ==
    LET M(p) == MatchSleepTime(s, p) IN Search(s, M)

supine_match(s) ==
    LET M(p) == MatchSupine(s, p) IN Search(s, M)

\* ^"?Apneas:\s+(\d+\.?\d*)\s*/h with re.MULTILINE: anchored at a line start.
apnea_index_match(s) ==
    LET M(p) == IF LineStart(s, p)
                THEN MatchLabelled(s, p, L_apneas, U_per_hour, TRUE)
                ELSE NoGroup
    IN  Search(s, M)

apnea_count_match(s) ==
    LET M(p) == MatchApneaCount(s, p) IN Search(s, M)

\* "?Arousal index in TST:\s+(\d+\.?\d*)/h: no \s* before the unit.
arousal_match(s) ==
    LET M(p) == MatchLabelled(s, p, L_arousal, U_per_hour, FALSE) IN Search(s, M)

(***************************************************************************)
(* parse_nox_report                                                        *)
(***************************************************************************)

\* The per-field defaults of the data dictionary.
DefaultBase ==
    [ahi |-> Rat(289, 10), odi |-> Rat(226, 10), avg_spo2 |-> Rat(927, 10),
     min_spo2 |-> Rat(51, 1), sleep_time_hours |-> Rat(85, 10),
     supine_pct |-> Rat(291, 10), apnea_index |-> Rat(168, 10),
     apnea_count |-> 143, arousal_index |-> Rat(0, 1)]

\* The nine re.search results, by the field each feeds.
Matches(s) ==
    [ahi |-> ahi_match(s), odi |-> odi_match(s),
     avg_spo2 |-> avg_spo2_match(s), min_spo2 |-> min_spo2_match(s),
     sleep_time_hours |-> sleep_time_match(s), supine_pct |-> supine_match(s),
     apnea_index |-> apnea_index_match(s), apnea_count |-> apnea_count_match(s),
     arousal_index |-> arousal_match(s)]

\* float(m.group(1)) if m else default
FloatOr(s, m, default) == IF m # NoGroup THEN FloatOf(s, m[1], m[2]) ELSE default

\* data = {...}: each field from its match, or its default.
BaseFields(s, m) ==
    [ahi |-> FloatOr(s, m.ahi, DefaultBase.ahi),
     odi |-> FloatOr(s, m.odi, DefaultBase.odi),
     avg_spo2 |-> FloatOr(s, m.avg_spo2, DefaultBase.avg_spo2),
     min_spo2 |-> FloatOr(s, m.min_spo2, DefaultBase.min_spo2),
     sleep_time_hours |->
         IF m.sleep_time_hours # NoGroup
         THEN Rat(60 * IntOf(s, m.sleep_time_hours[1], m.sleep_time_hours[2])
                    + IntOf(s, m.sleep_time_hours[3], m.sleep_time_hours[4]), 60)
         ELSE DefaultBase.sleep_time_hours,
     supine_pct |-> FloatOr(s, m.supine_pct, DefaultBase.supine_pct),
     apnea_index |-> FloatOr(s, m.apnea_index, DefaultBase.apnea_index),
     apnea_count |-> IF m.apnea_count # NoGroup
                     THEN IntOf(s, m.apnea_count[1], m.apnea_count[2])
                     ELSE DefaultBase.apnea_count,
     arousal_index |-> FloatOr(s, m.arousal_index, DefaultBase.arousal_index)]

\* data['desat_events'] = int(data['odi'] * data['sleep_time_hours'])
desat_events(d) ==
    IntTrunc(d.odi.num * d.sleep_time_hours.num, d.odi.den * d.sleep_time_hours.den)

\* awakenings without its floor of 1.
awakenings_without_floor(d) ==
    IntTrunc(d.arousal_index.num * d.sleep_time_hours.num,
             d.arousal_index.den * d.sleep_time_hours.den * 10)

\* data['awakenings'] = max(1, int(data['arousal_index'] * data['sleep_time_hours'] / 10))
awakenings(d) ==
    Max(1, IntTrunc(d.arousal_index.num * d.sleep_time_hours.num,
                    d.arousal_index.den * d.sleep_time_hours.den * 10))

\* The record the try block returns for a text s with match results m.
TryRecord(s, m) ==
    LET d == BaseFields(s, m)
    IN  [ahi |-> d.ahi, odi |-> d.odi, avg_spo2 |-> d.avg_spo2,
         min_spo2 |-> d.min_spo2, sleep_time_hours |-> d.sleep_time_hours,
         supine_pct |-> d.supine_pct, apnea_index |-> d.apnea_index,
         apnea_count |-> d.apnea_count, arousal_index |-> d.arousal_index,
         desat_events |-> desat_events(d), awakenings |-> awakenings(d)]

\* The record parse_nox_report returns for a text that was read.
ParseText(s) == TryRecord(s, Matches(s))

\* The record the except block returns.
ExceptRecord ==
    [ahi |-> Rat(289, 10), odi |-> Rat(226, 10), avg_spo2 |-> Rat(927, 10),
     min_spo2 |-> Rat(51, 1), sleep_time_hours |-> Rat(85, 10),
     supine_pct |-> Rat(291, 10), apnea_index |-> Rat(168, 10),
     apnea_count |-> 143, desat_events |-> 192, awakenings |-> 6,
     arousal_index |-> Rat(0, 1)]

(***************************************************************************)
(* Report files                                                            *)
(*                                                                         *)
(* A report file is described by the lines it holds: for each of the nine  *)
(* fields one line descriptor [form, val].  Render writes the descriptor   *)
(* out as the text of the file; parse_nox_report reads that text.          *)
(***************************************************************************)

Fields == {"ahi", "odi", "avg_spo2", "min_spo2", "sleep_time_hours",
           "supine_pct", "apnea_index", "apnea_count", "arousal_index"}

\* The order of the lines in a rendered report.
LineOrder == <<"ahi", "apnea_index", "apnea_count", "odi", "avg_spo2",
               "min_spo2", "sleep_time_hours", "supine_pct", "arousal_index">>

\* The label each field's line carries.
LabelOf(f) ==
    CASE f = "ahi" -> L_ahi
      [] f = "odi" -> L_odi
      [] f = "avg_spo2" -> L_avg_spo2
      [] f = "min_spo2" -> L_min_spo2
      [] f = "sleep_time_hours" -> L_sleep_time
      [] f = "supine_pct" -> L_supine
      [] f = "apnea_index" -> L_apneas
      [] f = "apnea_count" -> L_apneas
      [] f = "arousal_index" -> L_arousal

UnitOf(f) ==
    IF f \in {"ahi", "odi", "apnea_index", "arousal_index"} THEN U_per_hour
    ELSE IF f \in {"avg_spo2", "min_spo2", "supine_pct"} THEN U_percent
    ELSE <<>>

\* The forms of a line:
\*   absent   the report holds no line for the field
\*   tight    Label:   5.2/h        (for the sleep time  8h 6m, for the count  36)
\*   spaced   Label:   5.2 /h       (8 h 6m, and the count followed by a space)
\*   quoted   "Label:   5.2/h       (tight, after the export's leading quote)
\*   requoted ""Label:   5.2/h      (a quoted line with one more quote)
\*   glued    Label:5.2/h           (no space after the colon)
\*   dash     Label:   -/h          (no number)
Forms == {"tight", "spaced", "quoted", "requoted", "glued", "dash"}

Absent == [form |-> "absent", val |-> "A"]

\* Values a line can hold that lie at or beyond the ends of the ranges of the
\* data model: percentages above 100, a sleep time of 0h 0m.
ExtremeValueOf(f) ==
    CASE f = "ahi" -> <<120, 5>>
      [] f = "odi" -> <<0, -1>>
      [] f = "avg_spo2" -> <<150, -1>>
      [] f = "min_spo2" -> <<101, 5>>
      [] f = "sleep_time_hours" -> <<0, 0>>
      [] f = "supine_pct" -> <<250, 0>>
      [] f = "apnea_index" -> <<0, 0>>
      [] f = "apnea_count" -> <<1000, -1>>
      [] f = "arousal_index" -> <<0, -1>>

\* The values written into the lines, by tag "A", "B" or "C" (the extreme
\* values): <<a, b>> is the decimal a.b (b = -1: the integer a, written
\* without a dot), for the sleep time a hours b minutes.
ValueOf(f, tag) ==
    IF tag = "C" THEN ExtremeValueOf(f) ELSE
    CASE f = "ahi" -> IF tag = "A" THEN <<5, 2>> ELSE <<0, -1>>
      [] f = "odi" -> IF tag = "A" THEN <<1, 1>> ELSE <<11, 0>>
      [] f = "avg_spo2" -> IF tag = "A" THEN <<95, 1>> ELSE <<100, -1>>
      [] f = "min_spo2" -> IF tag = "A" THEN <<69, -1>> ELSE <<83, 5>>
      [] f = "sleep_time_hours" -> IF tag = "A" THEN <<8, 6>> ELSE <<7, 45>>
      [] f = "supine_pct" -> IF tag = "A" THEN <<15, 6>> ELSE <<0, 0>>
      [] f = "apnea_index" -> IF tag = "A" THEN <<4, 4>> ELSE <<20, -1>>
      [] f = "apnea_count" -> IF tag = "A" THEN <<36, -1>> ELSE <<0, -1>>
      [] f = "arousal_index" -> IF tag = "A" THEN <<2, 0>> ELSE <<12, 5>>

\* The decimal digits of a natural number.
RECURSIVE DigitsOf(_)
DigitsOf(n) ==
    IF n < 10 THEN <<DigitChars[n + 1]>>
    ELSE DigitsOf(n \div 10) \o <<DigitChars[(n % 10) + 1]>>

\* The text of a decimal <<a, b>>.
DecimalText(v) ==
    IF v[2] = -1 THEN DigitsOf(v[1]) ELSE DigitsOf(v[1]) \o <<".">> \o DigitsOf(v[2])

\* The text after the label's gap, for a line that holds a number.
ValueText(f, form, v) ==
    LET sp == IF form = "spaced" THEN <<" ">> ELSE <<>>
    IN  IF f = "sleep_time_hours"
        THEN DigitsOf(v[1]) \o sp \o <<"h", " ">> \o DigitsOf(v[2]) \o <<"m">>
        ELSE IF f = "apnea_count" THEN DigitsOf(v[1]) \o sp
        ELSE DecimalText(v) \o sp \o UnitOf(f)

\* The text of one line, with its line break.
LineText(f, d) ==
    IF d.form = "absent" THEN <<>>
    ELSE (IF d.form = "quoted" THEN <<"\"">>
          ELSE IF d.form = "requoted" THEN <<"\"", "\"">>
          ELSE <<>>)
         \o LabelOf(f)
         \o (IF d.form = "glued" THEN <<>> ELSE <<" ", " ", " ">>)
         \o (IF d.form = "dash" THEN <<"-">> \o UnitOf(f)
             ELSE ValueText(f, d.form, ValueOf(f, d.val)))
         \o <<"\n">>

\* The text of the report: its lines in LineOrder.
RECURSIVE RenderFrom(_, _)
RenderFrom(r, k) ==
    IF k > Len(LineOrder) THEN <<>>
    ELSE LineText(LineOrder[k], r[LineOrder[k]]) \o RenderFrom(r, k + 1)

Render(r) == RenderFrom(r, 1)

\* The number a line's value stands for, as the field's type.
NumberOf(f, d) ==
    LET v == ValueOf(f, d.val)
    IN  IF f = "sleep_time_hours" THEN Rat(60 * v[1] + v[2], 60)
        ELSE IF f = "apnea_count" THEN v[1]
        ELSE IF v[2] = -1 THEN Rat(v[1], 1)
        ELSE Rat(10 * v[1] + v[2], 10)

\* The forms in which a field's line follows the layout its pattern reads:
\* label, white space (not required by the Supine and the Apneas count
\* patterns), number, unit; the arousal pattern takes no space before /h and
\* the sleep-time pattern none before h; the Apneas index pattern, anchored at
\* the line start, takes one quote before the label and no more.
WellFormed(f, d) ==
    \/ d.form \in {"tight", "quoted"}
    \/ d.form = "requoted" /\ f # "apnea_index"
    \/ d.form = "spaced" /\ f \notin {"arousal_index", "sleep_time_hours"}
    \/ d.form = "glued" /\ f \in {"supine_pct", "apnea_count"}

AllAbsent == [f \in Fields |-> Absent]

AllPresent == [f \in Fields |-> [form |-> "tight", val |-> "A"]]

\* What an edit may put in the place of a line.
EditOptions ==
    {Absent, [form |-> "tight", val |-> "B"], [form |-> "tight", val |-> "C"]}
        \cup {[form |-> fm, val |-> "A"] : fm \in Forms}

\* The largest number of lines in which a report differs from AllAbsent or
\* from AllPresent.
MaxEdits == 1

\* The reports that differ from base in at most MaxEdits lines.
Edited(base) ==
    LET sets == {S \in SUBSET Fields : Cardinality(S) <= MaxEdits}
        edits == UNION {[S -> EditOptions] : S \in sets}
    IN  {[f \in Fields |-> IF f \in DOMAIN c THEN c[f] ELSE base[f]] : c \in edits}

\* Every subset of the nine lines, each present line tight with its A value.
SubsetReports == {[f \in Fields |-> IF f \in S THEN AllPresent[f] ELSE Absent] :
                    S \in SUBSET Fields}

Reports == SubsetReports \cup Edited(AllAbsent) \cup Edited(AllPresent)

\* A file of the file system: its report, and what open() and read() do on it.
\*   ok           open and read succeed
\*   missing      open raises FileNotFoundError
\*   denied       open raises PermissionError
\*   undecodable  read raises UnicodeDecodeError
FileStatus == {"ok", "missing", "denied", "undecodable"}

ExceptionOf(status) ==
    CASE status = "missing" -> "FileNotFoundError"
      [] status = "denied" -> "PermissionError"
      [] status = "undecodable" -> "UnicodeDecodeError"
      [] OTHER -> "none"

\* A handler that catches the missing file only (except FileNotFoundError).
Catches_missing_file_only(e) == e = "FileNotFoundError"

\* except Exception: the handler of parse_nox_report catches every exception
\* that open() and read() raise.
Catches(e) == e \in {"FileNotFoundError", "PermissionError", "UnicodeDecodeError"}

ReportFiles ==
    {[status |-> "ok", report |-> r] : r \in Reports}
        \cup {[status |-> st, report |-> AllAbsent] : st \in FileStatus \ {"ok"}}

\* The value of data before the call returns.
NoData == [none |-> TRUE]

\* parse_nox_report(file_path): the record returned (or the exception that
\* leaves the function), with the fields whose pattern matched.  The try block
\* opens and reads the file, searches the nine patterns and builds the record;
\* the except block returns the fixed record.  The numbers a report of the
\* model holds are small, so float() and int() raise nothing in the try block.
parse_nox_report(f) ==
    IF f.status = "ok"
    THEN LET s == Render(f.report)
             m == Matches(s)
         IN  [raised |-> "none", data |-> TryRecord(s, m),
              matched |-> {x \in Fields : m[x] # NoGroup}]
    ELSE IF Catches(ExceptionOf(f.status))
    THEN [raised |-> "none", data |-> ExceptRecord, matched |-> {}]
    ELSE [raised |-> ExceptionOf(f.status), data |-> NoData, matched |-> {}]

(***************************************************************************)
(* Spec: one call of parse_nox_report on a report file                     *)
(***************************************************************************)

InitParse ==
    /\ file \in ReportFiles
    /\ pc = "call"
    /\ data = NoData
    /\ matched = {}

\* The module load is not part of this specification.
LoadIdle ==
    /\ fs = <<>>
    /\ lpc = "idle"
    /\ nox_baseline = NoData
    /\ nox_night2 = NoData
    /\ nox_night3 = NoData
    /\ loaded_by = <<>>
    /\ nights_data_generated = <<>>
    /\ main_content = NoData

\* The timeline is not part of this specification.
WindowIdle ==
    /\ signals = NoData
    /\ signals_fullnight = NoData
    /\ patient_dropdown = "None"
    /\ current_window = 0
    /\ window_indicator = NoData
    /\ view_mode = "windowed"
    /\ view_toggle_btn = "Full Night View"
    /\ n_clicks = 0
    /\ navigation_controls = "flex"
    /\ timeline_graph = NoData

\* position_angle_to_category is not part of this specification.
PositionIdle ==
    /\ angle = Rat(0, 1)
    /\ position_category = "none"

\* No callback is in flight and there is no second session.
SessionIdle ==
    /\ pending = NoData
    /\ peer = NoData

\* The six sidebar items, in the order of the layout.
NavItems == <<"nav-overview", "nav-patient-details", "nav-sleep-analysis",
              "nav-device-settings", "nav-reports", "nav-settings">>

\* The layout of either variant: the current-page store holds 'overview',
\* the first item is active and no item has a click.
LayoutNavClasses == [i \in 1..6 |-> IF i = 1 THEN "nav-item active" ELSE "nav-item"]

\* The page navigation is not part of this specification.
NavIdle ==
    /\ variant = "none"
    /\ current_page = "overview"
    /\ nav_classes = LayoutNavClasses
    /\ nav_n_clicks = [i \in 1..6 |-> 0]

\* The overview page is not part of this specification.
OverviewIdle ==
    /\ signals_with_survey = NoData
    /\ overview_patient = "None"
    /\ overview_page = NoData

V2Idle == NavIdle /\ OverviewIdle

\* The comparison of the ten-step buttons with the single-step buttons is not
\* part of this specification.
JumpIdle ==
    /\ jump_button = "none"
    /\ jump_from = 0
    /\ jump_clicks = 0
    /\ jumped = NoData

\* The call of parse_nox_report on the file.
Call ==
    /\ pc = "call"
    /\ LET out == parse_nox_report(file)
       IN  /\ pc' = IF out.raised = "none" THEN "returned" ELSE "raised"
           /\ data' = out.data
           /\ matched' = out.matched
    /\ UNCHANGED file
    /\ UNCHANGED loadVars
    /\ UNCHANGED windowVars
    /\ UNCHANGED <<positionVars, sessionVars, v2Vars, jumpVars>>

Init == InitParse /\ LoadIdle /\ WindowIdle /\ PositionIdle /\ SessionIdle /\ V2Idle /\ JumpIdle

Next == Call

Spec == Init /\ [][Next]_vars

Returned == pc = "returned" /\ file.status = "ok"

\* A field of the record equals a number: the floats as rationals, the count
\* as an integer.
FieldEq(f, x, y) == IF f = "apnea_count" THEN x = y ELSE RatEq(x, y)

(***************************************************************************)
(* C1.  For every readable report text in which none of the nine patterns  *)
(* matches, parse_nox_report returns exactly the default record: the nine  *)
(* defaults, with desat_events = 192 and awakenings = 1 computed from them.*)
(***************************************************************************)
C1_DefaultRecord ==
    [ahi |-> Rat(289, 10), odi |-> Rat(226, 10), avg_spo2 |-> Rat(927, 10),
     min_spo2 |-> Rat(51, 1), sleep_time_hours |-> Rat(85, 10),
     supine_pct |-> Rat(291, 10), apnea_index |-> Rat(168, 10),
     apnea_count |-> 143, arousal_index |-> Rat(0, 1),
     desat_events |-> 192, awakenings |-> 1]

C1_NoMatchGivesDefaultRecord ==
    (Returned /\ matched = {}) => data = C1_DefaultRecord

\* A report that holds a line, none of whose patterns matches, was parsed.
C1_Witness ==
    /\ Returned
    /\ matched = {}
    /\ file.report # AllAbsent
    /\ data = C1_DefaultRecord

(***************************************************************************)
(* C2.  When the report file is absent or unreadable, parse_nox_report     *)
(* returns the same record as for a readable text in which all nine        *)
(* patterns fail (here: the empty text).                                   *)
(***************************************************************************)
C2_UnreadableSameAsNoMatch ==
    (pc = "returned" /\ file.status # "ok") => data = ParseText(<<>>)

(***************************************************************************)
(* C3.  For every report text the returned record has desat_events equal   *)
(* to odi * sleep_time_hours rounded to the nearest integer.               *)
(***************************************************************************)
C3_DesatEventsIsRounded ==
    Returned =>
        data.desat_events = Round(data.odi.num * data.sleep_time_hours.num,
                                  data.odi.den * data.sleep_time_hours.den)

(***************************************************************************)
(* C4.  For every report text the returned record has awakenings equal to  *)
(* max(1, round(arousal_index * sleep_time_hours / 10)).                   *)
(***************************************************************************)
C4_AwakeningsIsRounded ==
    Returned =>
        data.awakenings =
            Max(1, Round(data.arousal_index.num * data.sleep_time_hours.num,
                         data.arousal_index.den * data.sleep_time_hours.den * 10))

\* Each of the nine lines is in the report, in the layout its pattern reads.
C5_AllNinePresent == \A f \in Fields : WellFormed(f, file.report[f])

(***************************************************************************)
(* C5.  For every report text that contains all nine labelled values,      *)
(* every base field of the returned record equals the number written in    *)
(* its line (sleep_time_hours = hours + minutes/60): each of the nine      *)
(* patterns matched and no field took its default.                         *)
(***************************************************************************)
C5_AllPresentGivesMatchedValues ==
    (Returned /\ C5_AllNinePresent) =>
        /\ matched = Fields
        /\ \A f \in Fields : FieldEq(f, data[f], NumberOf(f, file.report[f]))

\* A report with all nine lines, one of them after the export's quote, was
\* parsed, and no field of the record has its default value.
C5_Witness ==
    /\ Returned
    /\ C5_AllNinePresent
    /\ \E f \in Fields : file.report[f].form = "quoted"
    /\ \A f \in Fields : ~FieldEq(f, data[f], DefaultBase[f])

(***************************************************************************)
(* C6.  Each of the nine base fields is resolved independently of the      *)
(* others: for any subset of labelled lines in the text, exactly the       *)
(* fields whose line is there carry the number of their line and every     *)
(* other field carries its default; apnea_index and apnea_count are each   *)
(* matched or defaulted whatever the other is.                             *)
(***************************************************************************)
C6_FieldsResolvedIndependently ==
    Returned =>
        \A f \in Fields :
            IF WellFormed(f, file.report[f])
            THEN f \in matched /\ FieldEq(f, data[f], NumberOf(f, file.report[f]))
            ELSE f \notin matched /\ data[f] = DefaultBase[f]

\* The text that holds only the AH line with 5.2 /h was parsed: ahi is 5.2
\* and the other eight fields have their defaults.
C6_Witness ==
    /\ Returned
    /\ file.report = [AllAbsent EXCEPT !["ahi"] = [form |-> "spaced", val |-> "A"]]
    /\ RatEq(data.ahi, Rat(52, 10))
    /\ \A f \in Fields \ {"ahi"} : data[f] = DefaultBase[f]

(***************************************************************************)
(* SpecLoad: the module load and update_dashboard                          *)
(*                                                                         *)
(* The module parses the three night reports, each inside its own          *)
(* try/except with a hard-coded fallback record, builds                    *)
(* nights_data_generated from them and then serves update_dashboard.       *)
(***************************************************************************)

\* The records the module-level except blocks assign (no arousal_index).
FallbackBaseline ==
    [ahi |-> Rat(289, 10), odi |-> Rat(226, 10), avg_spo2 |-> Rat(927, 10),
     min_spo2 |-> Rat(51, 1), sleep_time_hours |-> Rat(85, 10),
     supine_pct |-> Rat(291, 10), apnea_index |-> Rat(168, 10),
     apnea_count |-> 143, desat_events |-> 192, awakenings |-> 6]

FallbackNight2 ==
    [ahi |-> Rat(52, 10), odi |-> Rat(11, 10), avg_spo2 |-> Rat(951, 10),
     min_spo2 |-> Rat(69, 1), sleep_time_hours |-> Rat(81, 10),
     supine_pct |-> Rat(156, 10), apnea_index |-> Rat(44, 10),
     apnea_count |-> 36, desat_events |-> 9, awakenings |-> 1]

FallbackNight3 ==
    [ahi |-> Rat(55, 10), odi |-> Rat(110, 10), avg_spo2 |-> Rat(926, 10),
     min_spo2 |-> Rat(83, 1), sleep_time_hours |-> Rat(71, 10),
     supine_pct |-> Rat(637, 10), apnea_index |-> Rat(20, 10),
     apnea_count |-> 14, desat_events |-> 78, awakenings |-> 1]

\* The list with the CPAP entry built from the baseline record.
create_night_variations_from_baseline(baseline, night2_data, night3_data) ==
    [k \in 1..3 |->
        LET rec == IF k = 3 THEN night3_data ELSE baseline
        IN  [ahi |-> rec.ahi, odi |-> rec.odi, sleep_time |-> rec.sleep_time_hours,
             supine |-> rec.supine_pct, awakenings |-> rec.awakenings,
             detaching |-> IF k = 3 THEN Rat(1, 1) ELSE Rat(0, 1),
             latch_percent |-> IF k = 3 THEN Rat(96, 1) ELSE Rat(0, 1),
             suction_bulb |-> IF k = 3 THEN Rat(138, 10) ELSE Rat(0, 1),
             suction_cup |-> IF k = 3 THEN Rat(91, 10) ELSE Rat(0, 1)]]

\* create_night_variations(baseline, night2_data, night3_data)
create_night_variations(baseline, night2_data, night3_data) ==
    << [ahi |-> baseline.ahi, odi |-> baseline.odi,
        sleep_time |-> baseline.sleep_time_hours, supine |-> baseline.supine_pct,
        awakenings |-> baseline.awakenings, detaching |-> Rat(0, 1),
        latch_percent |-> Rat(0, 1), suction_bulb |-> Rat(0, 1),
        suction_cup |-> Rat(0, 1)],
       [ahi |-> night2_data.ahi, odi |-> night2_data.odi,
        sleep_time |-> night2_data.sleep_time_hours,
        supine |-> night2_data.supine_pct,
        awakenings |-> night2_data.awakenings, detaching |-> Rat(0, 1),
        latch_percent |-> Rat(0, 1), suction_bulb |-> Rat(0, 1),
        suction_cup |-> Rat(0, 1)],
       [ahi |-> night3_data.ahi, odi |-> night3_data.odi,
        sleep_time |-> night3_data.sleep_time_hours,
        supine |-> night3_data.supine_pct,
        awakenings |-> night3_data.awakenings, detaching |-> Rat(1, 1),
        latch_percent |-> Rat(96, 1), suction_bulb |-> Rat(138, 10),
        suction_cup |-> Rat(91, 10)] >>

\* The reports the three files hold in this specification: the empty report,
\* the full report, and each of them with an AH line that reports 0 /h.
LoadReports ==
    {AllAbsent, AllPresent,
     [AllAbsent EXCEPT !["ahi"] = [form |-> "spaced", val |-> "B"]],
     [AllPresent EXCEPT !["ahi"] = [form |-> "tight", val |-> "B"]]}

LoadFiles ==
    {[status |-> "ok", report |-> r] : r \in LoadReports}
        \cup {[status |-> st, report |-> AllAbsent] : st \in FileStatus \ {"ok"}}

Nights == {"night1", "night2", "night3"}

\* The value of the patient dropdown: a patient of the signal table (every
\* row of it has PatientID 101), a patient without rows, or no selection.
NoPatient == "None"

PatientIds == {NoPatient, "101", "102"}

\* The parse spec is not part of this specification.
ParseIdle ==
    /\ file = NoData
    /\ pc = "idle"
    /\ data = NoData
    /\ matched = {}

InitLoad ==
    /\ fs \in [Nights -> LoadFiles]
    /\ lpc = "night1"
    /\ nox_baseline = NoData
    /\ nox_night2 = NoData
    /\ nox_night3 = NoData
    /\ loaded_by = [n \in Nights |-> "none"]
    /\ nights_data_generated = <<>>
    /\ main_content = NoData
    /\ ParseIdle
    /\ WindowIdle
    /\ PositionIdle
    /\ SessionIdle
    /\ V2Idle
    /\ JumpIdle

\* try: nox_baseline = parse_nox_report("N008N1SASReport.csv")
\* except Exception: nox_baseline = {...}
LoadNight1 ==
    /\ lpc = "night1"
    /\ LET out == parse_nox_report(fs["night1"])
       IN  IF out.raised = "none"
           THEN /\ nox_baseline' = out.data
                /\ loaded_by' = [loaded_by EXCEPT !["night1"] = "parse"]
           ELSE /\ nox_baseline' = FallbackBaseline
                /\ loaded_by' = [loaded_by EXCEPT !["night1"] = "fallback"]
    /\ lpc' = "night2"
    /\ UNCHANGED <<fs, nox_night2, nox_night3, nights_data_generated, main_content>>
    /\ UNCHANGED parseVars
    /\ UNCHANGED windowVars
    /\ UNCHANGED <<positionVars, sessionVars, v2Vars, jumpVars>>

\* try: nox_night2 = parse_nox_report("N008N2SASReport.csv")
\* except: nox_night2 = {...}
LoadNight2 ==
    /\ lpc = "night2"
    /\ LET out == parse_nox_report(fs["night2"])
       IN  IF out.raised = "none"
           THEN /\ nox_night2' = out.data
                /\ loaded_by' = [loaded_by EXCEPT !["night2"] = "parse"]
           ELSE /\ nox_night2' = FallbackNight2
                /\ loaded_by' = [loaded_by EXCEPT !["night2"] = "fallback"]
    /\ lpc' = "night3"
    /\ UNCHANGED <<fs, nox_baseline, nox_night3, nights_data_generated, main_content>>
    /\ UNCHANGED parseVars
    /\ UNCHANGED windowVars
    /\ UNCHANGED <<positionVars, sessionVars, v2Vars, jumpVars>>

\* try: nox_night3 = parse_nox_report("N008N3SASReport.csv")
\* except Exception: nox_night3 = {...}
LoadNight3 ==
    /\ lpc = "night3"
    /\ LET out == parse_nox_report(fs["night3"])
       IN  IF out.raised = "none"
           THEN /\ nox_night3' = out.data
                /\ loaded_by' = [loaded_by EXCEPT !["night3"] = "parse"]
           ELSE /\ nox_night3' = FallbackNight3
                /\ loaded_by' = [loaded_by EXCEPT !["night3"] = "fallback"]
    /\ lpc' = "variations"
    /\ UNCHANGED <<fs, nox_baseline, nox_night2, nights_data_generated, main_content>>
    /\ UNCHANGED parseVars
    /\ UNCHANGED windowVars
    /\ UNCHANGED <<positionVars, sessionVars, v2Vars, jumpVars>>

\* nights_data_generated = create_night_variations(nox_baseline, nox_night2, nox_night3)
CreateNightVariations ==
    /\ lpc = "variations"
    /\ nights_data_generated' =
           create_night_variations(nox_baseline, nox_night2, nox_night3)
    /\ lpc' = "serving"
    /\ UNCHANGED <<fs, nox_baseline, nox_night2, nox_night3, loaded_by, main_content>>
    /\ UNCHANGED parseVars
    /\ UNCHANGED windowVars
    /\ UNCHANGED <<positionVars, sessionVars, v2Vars, jumpVars>>

\* The number of rows of signals_with_survey with PatientID == patient_id, on
\* a signal table that is not empty.
HasRows(patient_id) == patient_id = "101"

\* a - b and a < b on the values of the records.
RatMinus(a, b) == Rat(a.num * b.den - b.num * a.den, a.den * b.den)

RatLt(a, b) == a.num * b.den < b.num * a.den

\* The titles update_dashboard gives the four delta cards, character by
\* character; the SpO2 titles end in the subscript two, U+2082.
Title_ApneaIndex == <<"A", "p", "n", "e", "a", " ", "I", "n", "d", "e", "x">>

Title_ODI == <<"O", "D", "I">>

Title_MeanSpO2 == <<"M", "e", "a", "n", " ", "S", "p", "O", "₂">>

Title_NadirSpO2 == <<"N", "a", "d", "i", "r", " ", "S", "p", "O", "₂">>

UpperCase == <<"A", "B", "C", "D", "E", "F", "G", "H", "I", "J", "K", "L", "M",
               "N", "O", "P", "Q", "R", "S", "T", "U", "V", "W", "X", "Y", "Z">>

LowerCase == <<"a", "b", "c", "d", "e", "f", "g", "h", "i", "j", "k", "l", "m",
               "n", "o", "p", "q", "r", "s", "t", "u", "v", "w", "x", "y", "z">>

\* str.lower(): the subscript two has no lower case and stays as it is.
lower(s) ==
    [i \in 1..Len(s) |->
        IF \E k \in 1..26 : UpperCase[k] = s[i]
        THEN LowerCase[CHOOSE k \in 1..26 : UpperCase[k] = s[i]]
        ELSE s[i]]

\* sub in s
In(sub, s) ==
    \E i \in 1..(Len(s) - Len(sub) + 1) : SubSeq(s, i, i + Len(sub) - 1) = sub

\* create_delta_kpi_card(title, baseline_value, device_value, description):
\* the delta and the status that colours it.
create_delta_kpi_card(title, baseline_value, device_value) ==
    LET delta == RatMinus(device_value, baseline_value)
    IN  [delta |-> delta,
         status |->
            IF In(<<"s", "p", "o", "2">>, lower(title))
                  \/ In(<<"m", "e", "a", "n">>, lower(title))
            THEN IF RatLt(Rat(0, 1), delta) THEN "success"
                 ELSE IF RatLt(delta, Rat(-2, 1)) THEN "danger"
                 ELSE "warning"
            ELSE IF RatLt(delta, Rat(-5, 1)) THEN "success"
                 ELSE IF RatLt(Rat(0, 1), delta) THEN "danger"
                 ELSE "warning"]

\* update_dashboard(patient_id), as far as the cards: the two early returns,
\* then (ahi_without_device - ahi_with_device) / ahi_without_device * 100,
\* which raises ZeroDivisionError on a zero float, and the four delta cards.
update_dashboard(patient_id) ==
    IF patient_id = NoPatient THEN [view |-> "Please select a patient"]
    ELSE IF ~HasRows(patient_id) THEN [view |-> "No data available"]
    ELSE LET ahi_without_device == nights_data_generated[1].ahi
             ahi_with_device == nights_data_generated[3].ahi
         IN  IF RatIsZero(ahi_without_device)
             THEN [view |-> "ZeroDivisionError"]
             ELSE [view |-> "dashboard",
                   efficacy |->
                       Rat((ahi_without_device.num * ahi_with_device.den
                              - ahi_with_device.num * ahi_without_device.den) * 100,
                           ahi_without_device.num * ahi_with_device.den),
                   apnea_index_card |->
                       create_delta_kpi_card(Title_ApneaIndex,
                           nox_baseline.apnea_index, nox_night3.apnea_index),
                   odi_card |->
                       create_delta_kpi_card(Title_ODI, nox_baseline.odi,
                                             nox_night3.odi),
                   mean_spo2_card |->
                       create_delta_kpi_card(Title_MeanSpO2,
                           nox_baseline.avg_spo2, nox_night3.avg_spo2),
                   nadir_spo2_card |->
                       create_delta_kpi_card(Title_NadirSpO2,
                           nox_baseline.min_spo2, nox_night3.min_spo2)]

\* The callback on the patient dropdown.
UpdateDashboard ==
    /\ lpc = "serving"
    /\ \E patient_id \in PatientIds : main_content' = update_dashboard(patient_id)
    /\ UNCHANGED <<fs, lpc, nox_baseline, nox_night2, nox_night3, loaded_by,
                   nights_data_generated>>
    /\ UNCHANGED parseVars
    /\ UNCHANGED windowVars
    /\ UNCHANGED <<positionVars, sessionVars, v2Vars, jumpVars>>

NextLoad ==
    \/ LoadNight1
    \/ LoadNight2
    \/ LoadNight3
    \/ CreateNightVariations
    \/ UpdateDashboard

SpecLoad == InitLoad /\ [][NextLoad]_vars

RecordKeys == Fields \cup {"desat_events", "awakenings"}

(***************************************************************************)
(* C7.  parse_nox_report never lets an exception reach its caller: for     *)
(* every input (missing, unreadable or undecodable file, empty or partly   *)
(* matching text) it returns a record with all nine base fields and both   *)
(* derived fields, so the fallback records of the module load are never    *)
(* used.                                                                   *)
(***************************************************************************)
C7_Loaded(n, rec) ==
    loaded_by[n] # "none" => loaded_by[n] = "parse" /\ DOMAIN rec = RecordKeys

C7_ParseNeverRaises ==
    /\ C7_Loaded("night1", nox_baseline)
    /\ C7_Loaded("night2", nox_night2)
    /\ C7_Loaded("night3", nox_night3)

\* The module finished loading with a report file it could not open, one it
\* could not decode and one that is there.
C7_Witness ==
    /\ lpc = "serving"
    /\ fs["night1"].status = "denied"
    /\ fs["night2"].status = "undecodable"
    /\ fs["night3"].status = "ok"
    /\ \A n \in Nights : loaded_by[n] = "parse"

(***************************************************************************)
(* C8.  The comparison arithmetic on the extracted records never divides   *)
(* by zero: for every baseline report text, also one whose AH line reports *)
(* 0 /h, the treatment-efficacy expression of update_dashboard has a       *)
(* non-zero denominator.                                                   *)
(***************************************************************************)
C8_EfficacyDenominatorNonZero ==
    /\ lpc = "serving" => ~RatIsZero(nights_data_generated[1].ahi)
    /\ main_content # [view |-> "ZeroDivisionError"]

(***************************************************************************)
(* SpecWindow: the timeline of the signal table                            *)
(*                                                                         *)
(* A signal table is [k, r, kind]: it has 300 * k + r rows, at positions   *)
(* 0 .. n-1, and kind says how the time column runs.  Every row has        *)
(* PatientID 101.                                                          *)
(***************************************************************************)

\* An angle is a rational number of degrees [num, den] with den > 0, or the
\* NaN pandas reads from an empty cell (den = 0), with which every comparison
\* is false.
NaN == Rat(0, 0)

\* lo <= a and a <= hi and their strict forms, for integers lo, hi.
AngleGe(a, lo) == a.den > 0 /\ a.num >= lo * a.den

AngleGt(a, lo) == a.den > 0 /\ a.num > lo * a.den

AngleLe(a, hi) == a.den > 0 /\ a.num <= hi * a.den

AngleLt(a, hi) == a.den > 0 /\ a.num < hi * a.den

\* The bands with the boundary angles 45 and -45 given to Right and Left.
position_angle_to_category_open_supine(a) ==
    IF AngleGt(a, -45) /\ AngleLt(a, 45) THEN "Supine"
    ELSE IF AngleGe(a, 45) /\ AngleLe(a, 135) THEN "Right"
    ELSE IF AngleGe(a, -135) /\ AngleLe(a, -45) THEN "Left"
    ELSE "Prone"

\* position_angle_to_category(angle)
position_angle_to_category(a) ==
    IF AngleGe(a, -45) /\ AngleLe(a, 45) THEN "Supine"
    ELSE IF AngleGt(a, 45) /\ AngleLe(a, 135) THEN "Right"
    ELSE IF AngleGe(a, -135) /\ AngleLt(a, -45) THEN "Left"
    ELSE "Prone"

\* points_per_window = 300 (30 seconds at 10 Hz), in update_window and in
\* create_manufacturing_timeline.
points_per_window == 300

TableLen(t) == points_per_window * t.k + t.r

\* The time column, in tenths of a second, of the row at position i:
\*   uniform    10 Hz sampling
\*   irregular  every timestamp twice, and a gap of 100 s after the first
\*              150 rows
TimeAt(t, i) ==
    IF t.kind = "uniform" THEN i
    ELSE 2 * (i \div 2) + (IF i >= 150 THEN 1000 ELSE 0)

\* The number of whole windows of the largest table.
MaxWindows == 3

\* The clicks on one view toggle button the specification follows.
MaxClicks == 3

\* The rows a table has beyond its last whole window.
Remainders == {0, 1, 299}

Tables == {[k |-> k, r |-> r, kind |-> kd] :
             k \in 0..MaxWindows, r \in Remainders, kd \in {"uniform", "irregular"}}

\* signals_with_survey[signals_with_survey["PatientID"] == patient_id]: the
\* whole table for patient 101, no row for any other value.
PatientData(t, pid) == IF pid = "101" THEN t ELSE [t EXCEPT !.k = 0, !.r = 0]

\* A bound of a Python slice over n rows: negative bounds count from the end.
SliceBound(n, x) == IF x < 0 THEN Max(n + x, 0) ELSE Min(x, n)

\* A selection of the rows by their time stamps: those of the window's 30
\* seconds.  The time column never decreases, so the rows are consecutive.
Iloc_by_time(t, start, stop) ==
    LET hits == {i \in 0..(TableLen(t) - 1) :
                    TimeAt(t, i) >= start /\ TimeAt(t, i) < stop}
        first == CHOOSE i \in hits : i = 0 \/ (i - 1) \notin hits
    IN  IF hits = {} THEN << >>
        ELSE [j \in 1..Cardinality(hits) |-> first + j - 1]

\* A selection that gives rows only to a window that lies wholly in the table.
Iloc_whole_windows_only(t, start, stop) ==
    IF start >= 0 /\ stop <= TableLen(t)
    THEN [j \in 1..(stop - start) |-> start + j - 1]
    ELSE << >>

\* patient_data.iloc[start:stop]: the positions of the selected rows, in
\* table order.
Iloc(t, start, stop) ==
    LET lo == SliceBound(TableLen(t), start)
        hi == SliceBound(TableLen(t), stop)
    IN  [j \in 1..Max(hi - lo, 0) |-> lo + j - 1]

EmptyFigure == [kind |-> "empty"]

\* The windowed figure built without the test for an empty window.
create_manufacturing_timeline_unguarded(patient_data, window_index) ==
    [kind |-> "windowed",
     rows |-> Iloc(patient_data, window_index * points_per_window,
                   window_index * points_per_window + points_per_window)]

\* create_manufacturing_timeline(patient_data, patient_id, window_index): the
\* rows the figure is drawn from.
create_manufacturing_timeline(patient_data, window_index) ==
    LET start_idx == window_index * points_per_window
        end_idx == start_idx + points_per_window
        windowed_data == Iloc(patient_data, start_idx, end_idx)
    IN  IF Len(windowed_data) = 0 THEN EmptyFigure
        ELSE [kind |-> "windowed", rows |-> windowed_data]

\* The signal columns of the row at position i.  A table of kind "uniform"
\* holds SpO2 values from 90 to 99, one of kind "irregular" values from 60 to
\* 104: below 70 and above 100 as well.
SpO2_pct(t, i) == IF t.kind = "uniform" THEN 90 + (i % 10) ELSE 60 + (i % 45)

PosAngle_deg(t, i) == Rat(((45 * i) % 360) - 180, 1)

Activity_gps(t, i) == i % 3

NasalFlow_cmH2O(t, i) == (i % 5) - 2

cRIP_Flow(t, i) == (i % 7) - 3

AudioVolume_dB(t, i) == 30 + (i % 11)

\* np.clip(x, lo, hi)
clip(x, lo, hi) == Min(Max(x, lo), hi)

\* {'Supine': 2, 'Left': 1, 'Right': 3, 'Prone': 4}[cat]
position_numeric(cat) ==
    CASE cat = "Supine" -> 2
      [] cat = "Left" -> 1
      [] cat = "Right" -> 3
      [] cat = "Prone" -> 4

\* create_fullnight_timeline(patient_data, patient_id): the x and y values of
\* the six traces, over every row of the downsampled table; the time column
\* holds tenths of a second, time_hours is time / 3600.
create_fullnight_timeline(patient_data) ==
    IF TableLen(patient_data) = 0 THEN EmptyFigure
    ELSE LET rows == Iloc(patient_data, 0, TableLen(patient_data))
             n == Len(rows)
         IN  [kind |-> "fullnight",
              rows |-> rows,
              time_hours |-> [j \in 1..n |-> Rat(TimeAt(patient_data, rows[j]), 36000)],
              position_numeric |->
                  [j \in 1..n |->
                      position_numeric(position_angle_to_category(
                          PosAngle_deg(patient_data, rows[j])))],
              activity_data |-> [j \in 1..n |-> Activity_gps(patient_data, rows[j])],
              flow_data |-> [j \in 1..n |-> NasalFlow_cmH2O(patient_data, rows[j])],
              spo2_data |-> [j \in 1..n |-> clip(SpO2_pct(patient_data, rows[j]), 70, 100)],
              crip_flow_data |-> [j \in 1..n |-> cRIP_Flow(patient_data, rows[j])],
              audio_data |-> [j \in 1..n |-> AudioVolume_dB(patient_data, rows[j])]]

\* max_window with the trailing partial window counted.
max_window_of_ceiling(total_points) ==
    ((total_points + points_per_window - 1) \div points_per_window) - 1

\* max_window as the number of whole windows, not the index of the last one.
max_window_of_count(total_points) == total_points \div points_per_window

\* max_window = (total_points // points_per_window) - 1
max_window_of(total_points) == (total_points \div points_per_window) - 1

\* The buttons and the dropdown that trigger update_window; "none" is a call
\* with an empty ctx.triggered.
Triggers == {"none", "next-window-btn", "prev-window-btn", "next-10-window-btn",
             "prev-10-window-btn", "patient-dropdown"}

\* update_window with a dropdown change that keeps the window index.
update_window_keeping_index(button_id, pid, cw) ==
    IF pid = "None"
    THEN [window |-> 0, text |-> [number |-> 1, start_time |-> 0, end_time |-> 30]]
    ELSE LET max_window == max_window_of(TableLen(PatientData(signals, pid)))
             window ==
                 CASE button_id = "none" -> 0
                   [] button_id \in {"next-window-btn", "next-10-window-btn"} ->
                        Min(cw + (IF button_id = "next-window-btn" THEN 1 ELSE 10),
                            max_window)
                   [] button_id \in {"prev-window-btn", "prev-10-window-btn"} ->
                        Max(cw - (IF button_id = "prev-window-btn" THEN 1 ELSE 10), 0)
                   [] button_id = "patient-dropdown" -> cw
         IN  [window |-> window,
              text |-> [number |-> window + 1, start_time |-> window * 30,
                        end_time |-> (window + 1) * 30, of |-> max_window + 1]]

\* update_window with ten-step buttons that leave the index where it is when
\* ten steps would pass the end.
update_window_no_partial_jump(button_id, pid, cw) ==
    IF pid = "None"
    THEN [window |-> 0, text |-> [number |-> 1, start_time |-> 0, end_time |-> 30]]
    ELSE LET total_points == TableLen(PatientData(signals, pid))
             max_window == max_window_of(total_points)
             window ==
                 CASE button_id = "none" -> 0
                   [] button_id = "next-window-btn" -> Min(cw + 1, max_window)
                   [] button_id = "prev-window-btn" -> Max(cw - 1, 0)
                   [] button_id = "next-10-window-btn" ->
                          IF cw + 10 > max_window THEN cw ELSE cw + 10
                   [] button_id = "prev-10-window-btn" ->
                          IF cw - 10 < 0 THEN cw ELSE cw - 10
                   [] button_id = "patient-dropdown" -> 0
         IN  [window |-> window,
              text |-> [number |-> window + 1, start_time |-> window * 30,
                        end_time |-> (window + 1) * 30, of |-> max_window + 1]]

\* update_window(..., patient_id, current_window), triggered by button_id: the
\* window index and the indicator text
\*     f"Window {number} ({start_time}-{end_time}s) of {of}".
update_window(button_id, pid, cw) ==
    IF pid = "None"
    THEN [window |-> 0, text |-> [number |-> 1, start_time |-> 0, end_time |-> 30]]
    ELSE LET total_points == TableLen(PatientData(signals, pid))
             max_window == max_window_of(total_points)
             window ==
                 CASE button_id = "none" -> 0
                   [] button_id = "next-window-btn" -> Min(cw + 1, max_window)
                   [] button_id = "prev-window-btn" -> Max(cw - 1, 0)
                   [] button_id = "next-10-window-btn" -> Min(cw + 10, max_window)
                   [] button_id = "prev-10-window-btn" -> Max(cw - 10, 0)
                   [] button_id = "patient-dropdown" -> 0
         IN  [window |-> window,
              text |-> [number |-> window + 1, start_time |-> window * 30,
                        end_time |-> (window + 1) * 30, of |-> max_window + 1]]

\* toggle_view_mode with a click that leaves the mode as it was.
toggle_view_mode_keeping_mode(clicks, current_mode) ==
    IF clicks = 0
    THEN [mode |-> "windowed", button_text |-> "Full Night View", nav_style |-> "flex"]
    ELSE LET new_mode == IF current_mode = "fullnight" THEN "fullnight" ELSE "windowed"
         IN  IF new_mode = "fullnight"
             THEN [mode |-> new_mode, button_text |-> "30s Windows", nav_style |-> "none"]
             ELSE [mode |-> new_mode, button_text |-> "Full Night View", nav_style |-> "flex"]

\* toggle_view_mode(n_clicks, current_mode); the layout gives the button
\* n_clicks=0, so that n_clicks is a number in every call.
toggle_view_mode(clicks, current_mode) ==
    IF clicks = 0
    THEN [mode |-> "windowed", button_text |-> "Full Night View", nav_style |-> "flex"]
    ELSE LET new_mode == IF current_mode = "windowed" THEN "fullnight" ELSE "windowed"
         IN  IF new_mode = "fullnight"
             THEN [mode |-> new_mode, button_text |-> "30s Windows", nav_style |-> "none"]
             ELSE [mode |-> new_mode, button_text |-> "Full Night View", nav_style |-> "flex"]

\* The graph callback drawing the full night from the full-resolution table.
update_timeline_graph_full_resolution(cw, pid, mode) ==
    IF pid = "None" THEN EmptyFigure
    ELSE IF mode = "fullnight"
    THEN create_fullnight_timeline(PatientData(signals, pid))
    ELSE create_manufacturing_timeline(PatientData(signals, pid), cw)

\* update_timeline_graph(current_window, patient_id, view_mode)
update_timeline_graph(cw, pid, mode) ==
    IF pid = "None" THEN EmptyFigure
    ELSE IF mode = "fullnight"
    THEN create_fullnight_timeline(PatientData(signals_fullnight, pid))
    ELSE create_manufacturing_timeline(PatientData(signals, pid), cw)

\* The window indices create_manufacturing_timeline is called with directly.
WindowIndices == 0..(MaxWindows + 1)

InitWindow ==
    /\ signals \in Tables
    /\ signals_fullnight \in {t \in Tables : t.k = 0}
    /\ patient_dropdown = "101"
    /\ current_window = 0
    /\ window_indicator = [number |-> 1, start_time |-> 0, end_time |-> 30]
    /\ view_mode = "windowed"
    /\ view_toggle_btn = "30s Windows"
    /\ n_clicks = 0
    /\ navigation_controls = "flex"
    /\ timeline_graph = create_manufacturing_timeline(PatientData(signals, "101"), 0)
    /\ ParseIdle
    /\ LoadIdle
    /\ PositionIdle
    /\ SessionIdle
    /\ V2Idle
    /\ JumpIdle

\* A click on one of the four navigation buttons.
ClickNavigation ==
    /\ \E button_id \in Triggers \ {"none", "patient-dropdown"} :
         LET out == update_window(button_id, patient_dropdown, current_window)
         IN  /\ current_window' = out.window
             /\ window_indicator' = out.text
    /\ UNCHANGED <<n_clicks, signals, signals_fullnight, patient_dropdown, view_mode,
                   view_toggle_btn, navigation_controls, timeline_graph>>
    /\ UNCHANGED <<parseVars, loadVars, positionVars, sessionVars, v2Vars, jumpVars>>

\* The page update_dashboard returns has the timeline's components in it:
\* it is rendered for a patient the table has rows of.
Rendered(pid) == pid # "None" /\ TableLen(PatientData(signals, pid)) > 0

\* A change of the patient dropdown (to a patient with rows, to one the table
\* has no row of, or cleared): update_window runs with the dropdown as its
\* trigger, and the page update_dashboard renders has a new view toggle
\* button, a new view-mode store, new navigation controls and a new graph.
ChangePatient ==
    /\ \E pid \in PatientIds :
         LET out == update_window("patient-dropdown", pid, current_window)
         IN  /\ patient_dropdown' = pid
             /\ current_window' = out.window
             /\ window_indicator' = out.text
             /\ IF Rendered(pid)
                THEN /\ view_mode' = "windowed"
                     /\ view_toggle_btn' = "30s Windows"
                     /\ n_clicks' = 0
                     /\ navigation_controls' = "flex"
                     /\ timeline_graph' =
                            create_manufacturing_timeline(PatientData(signals, pid), 0)
                ELSE UNCHANGED <<view_mode, view_toggle_btn, n_clicks,
                                 navigation_controls, timeline_graph>>
    /\ UNCHANGED <<signals, signals_fullnight>>
    /\ UNCHANGED <<parseVars, loadVars, positionVars, sessionVars, v2Vars, jumpVars>>

\* The call of toggle_view_mode for a view toggle button nobody has clicked.
InitialToggleViewMode ==
    /\ n_clicks = 0
    /\ LET out == toggle_view_mode(n_clicks, view_mode)
       IN  /\ view_mode' = out.mode
           /\ view_toggle_btn' = out.button_text
           /\ navigation_controls' = out.nav_style
    /\ UNCHANGED <<n_clicks, signals, signals_fullnight, patient_dropdown, current_window,
                   window_indicator, timeline_graph>>
    /\ UNCHANGED <<parseVars, loadVars, positionVars, sessionVars, v2Vars, jumpVars>>

\* A click on the view toggle button that also writes 0 to the current-window
\* store.
ToggleViewMode_resetting_window ==
    /\ n_clicks < MaxClicks
    /\ n_clicks' = n_clicks + 1
    /\ LET out == toggle_view_mode(n_clicks', view_mode)
       IN  /\ view_mode' = out.mode
           /\ view_toggle_btn' = out.button_text
           /\ navigation_controls' = out.nav_style
    /\ current_window' = 0
    /\ UNCHANGED <<signals, signals_fullnight, patient_dropdown,
                   window_indicator, timeline_graph>>
    /\ UNCHANGED <<parseVars, loadVars, positionVars, sessionVars, v2Vars, jumpVars>>

\* A click on the view toggle button.
ToggleViewMode ==
    /\ n_clicks < MaxClicks
    /\ n_clicks' = n_clicks + 1
    /\ LET out == toggle_view_mode(n_clicks', view_mode)
       IN  /\ view_mode' = out.mode
           /\ view_toggle_btn' = out.button_text
           /\ navigation_controls' = out.nav_style
    /\ UNCHANGED <<signals, signals_fullnight, patient_dropdown, current_window,
                   window_indicator, timeline_graph>>
    /\ UNCHANGED <<parseVars, loadVars, positionVars, sessionVars, v2Vars, jumpVars>>

\* The graph callback, on the stores and the dropdown as they stand.
UpdateTimelineGraph ==
    /\ timeline_graph' = update_timeline_graph(current_window, patient_dropdown, view_mode)
    /\ UNCHANGED <<n_clicks, signals, signals_fullnight, patient_dropdown, current_window,
                   window_indicator, view_mode, view_toggle_btn,
                   navigation_controls>>
    /\ UNCHANGED <<parseVars, loadVars, positionVars, sessionVars, v2Vars, jumpVars>>

\* A call of create_manufacturing_timeline on the table with any window
\* index; window_index records the argument.
CreateManufacturingTimeline ==
    /\ \E window_index \in WindowIndices :
         timeline_graph' =
             [figure |-> create_manufacturing_timeline(signals, window_index),
              window_index |-> window_index]
    /\ UNCHANGED <<n_clicks, signals, signals_fullnight, patient_dropdown, current_window,
                   window_indicator, view_mode, view_toggle_btn,
                   navigation_controls>>
    /\ UNCHANGED <<parseVars, loadVars, positionVars, sessionVars, v2Vars, jumpVars>>

NextWindow ==
    \/ ClickNavigation
    \/ ChangePatient
    \/ InitialToggleViewMode
    \/ ToggleViewMode
    \/ UpdateTimelineGraph
    \/ CreateManufacturingTimeline

SpecWindow == InitWindow /\ [][NextWindow]_vars

(***************************************************************************)
(* C9.  The number of windows reported for navigation is floor(N / 300)    *)
(* for a table of N rows: it is k both for N = 300k and for N = 300k + r   *)
(* with 0 < r < 300, so a trailing partial window is not counted.          *)
(***************************************************************************)
C9_Reported == patient_dropdown = "101" /\ "of" \in DOMAIN window_indicator

C9_WindowCountIsFloor == C9_Reported => window_indicator.of = signals.k

\* update_window reported the count of a table with whole windows and a
\* trailing partial one.
C9_Witness ==
    /\ C9_Reported
    /\ signals.k >= 2
    /\ signals.r > 0
    /\ window_indicator.of = signals.k

(***************************************************************************)
(* C10.  For every window index i >= 0 and table of N rows, the windowed   *)
(* view selects exactly the rows at positions [300 i, min(300 (i+1), N)),  *)
(* in table order, by row position only, whatever the time stamps are; a   *)
(* start position at or beyond N yields an empty result.                   *)
(***************************************************************************)
C10_Called == "window_index" \in DOMAIN timeline_graph

C10_WindowSelectsRowsByPosition ==
    C10_Called =>
        LET i == timeline_graph.window_index
            N == 300 * signals.k + signals.r
            lo == 300 * i
            hi == Min(300 * (i + 1), N)
        IN  IF lo >= N THEN timeline_graph.figure = EmptyFigure
            ELSE /\ timeline_graph.figure.kind = "windowed"
                 /\ Len(timeline_graph.figure.rows) = hi - lo
                 /\ \A j \in 1..(hi - lo) :
                        timeline_graph.figure.rows[j] = lo + j - 1

\* On a table of 900 rows with irregular time stamps, window 2 was drawn
\* from the rows 600 to 899.
C10_Witness ==
    /\ C10_Called
    /\ signals = [k |-> 3, r |-> 0, kind |-> "irregular"]
    /\ timeline_graph.window_index = 2
    /\ timeline_graph.figure.kind = "windowed"
    /\ timeline_graph.figure.rows[1] = 600
    /\ timeline_graph.figure.rows[300] = 899

\* On a table of 900 rows, window 3 gave the empty figure.
C10_WitnessEmpty ==
    /\ C10_Called
    /\ signals.k = 3 /\ signals.r = 0
    /\ timeline_graph.window_index = 3
    /\ timeline_graph.figure = EmptyFigure

(***************************************************************************)
(* C11.  For a table of N = 300k + r rows with 0 < r < 300, the window     *)
(* whose index is the reported window count k is drawn from the remaining  *)
(* r rows, the positions 300k .. N - 1, and is not an error.               *)
(***************************************************************************)
C11_PartialWindowReturnsRemainder ==
    (C10_Called /\ signals.r > 0 /\ timeline_graph.window_index = signals.k) =>
        /\ timeline_graph.figure.kind = "windowed"
        /\ Len(timeline_graph.figure.rows) = signals.r
        /\ \A j \in 1..signals.r :
               timeline_graph.figure.rows[j] = 300 * signals.k + j - 1

\* On a table of 899 rows, of which the navigation counts 2 windows, window
\* 2 was drawn from the 299 rows 600 to 898.
C11_Witness ==
    /\ C10_Called
    /\ signals.k = 2 /\ signals.r = 299
    /\ timeline_graph.window_index = 2
    /\ timeline_graph.figure.kind = "windowed"
    /\ Len(timeline_graph.figure.rows) = 299
    /\ timeline_graph.figure.rows[299] = 898

(***************************************************************************)
(* SpecPosition: position_angle_to_category                                *)
(*                                                                         *)
(* The helper both timelines define to turn the PosAngle_deg column into   *)
(* the sleep position.  An angle is a rational number of degrees           *)
(* [num, den] with den > 0, or the NaN pandas reads from an empty cell     *)
(* (den = 0), with which every comparison is false.                        *)
(***************************************************************************)
\* The largest whole angle, in degrees, the helper is called with.
MaxAngle == 200

\* The angles: the whole degrees, the band boundaries shifted by a
\* ten-thousandth of a degree to either side, and NaN.
Angles ==
    {Rat(d, 1) : d \in (-MaxAngle)..MaxAngle}
        \cup {Rat(10000 * b + e, 10000) : b \in {-135, -45, 45, 135}, e \in {-1, 1}}
        \cup {NaN}

InitPosition ==
    /\ angle \in Angles
    /\ position_category = "none"
    /\ ParseIdle
    /\ LoadIdle
    /\ WindowIdle
    /\ SessionIdle
    /\ V2Idle
    /\ JumpIdle

\* The call of the helper on the angle.
PositionAngleToCategory ==
    /\ position_category = "none"
    /\ position_category' = position_angle_to_category(angle)
    /\ UNCHANGED angle
    /\ UNCHANGED <<parseVars, loadVars, windowVars, sessionVars, v2Vars, jumpVars>>

NextPosition == PositionAngleToCategory

SpecPosition == InitPosition /\ [][NextPosition]_vars

(***************************************************************************)
(* C12.  position_angle_to_category maps every tilt angle to exactly one   *)
(* category: -45 <= a <= 45 is Supine, 45 < a <= 135 is Right,             *)
(* -135 <= a < -45 is Left, and every other angle is Prone.                *)
(***************************************************************************)
C12_PositionBands ==
    position_category # "none" =>
        LET n == angle.num
            d == angle.den
        IN  /\ position_category \in {"Supine", "Right", "Left", "Prone"}
            /\ position_category = "Supine" <=>
                   (d > 0 /\ -45 * d <= n /\ n <= 45 * d)
            /\ position_category = "Right" <=>
                   (d > 0 /\ 45 * d < n /\ n <= 135 * d)
            /\ position_category = "Left" <=>
                   (d > 0 /\ -135 * d <= n /\ n < -45 * d)

\* The angle 45.0001 was classified, as Right.
C12_Witness ==
    /\ angle = Rat(450001, 10000)
    /\ position_category = "Right"

(***************************************************************************)
(* C13.  The full-night view presents every row of the downsampled table   *)
(* with every channel value unchanged: the time column divided by 3600 is  *)
(* the only transformation, and the SpO2 values shown are the SpO2 values  *)
(* of the table.  (The sleep-position trace, which shows the category of   *)
(* the angle, is left out of the comparison.)                              *)
(***************************************************************************)
C13_FullNightShowsTableValues ==
    (timeline_graph # NoData /\ "kind" \in DOMAIN timeline_graph
        /\ timeline_graph.kind = "fullnight") =>
        LET t == PatientData(signals_fullnight, "101")
            fig == timeline_graph
        IN  /\ Len(fig.rows) = TableLen(t)
            /\ \A j \in 1..TableLen(t) :
                   /\ fig.rows[j] = j - 1
                   /\ RatEq(fig.time_hours[j], Rat(TimeAt(t, j - 1), 36000))
                   /\ fig.activity_data[j] = Activity_gps(t, j - 1)
                   /\ fig.flow_data[j] = NasalFlow_cmH2O(t, j - 1)
                   /\ fig.spo2_data[j] = SpO2_pct(t, j - 1)
                   /\ fig.crip_flow_data[j] = cRIP_Flow(t, j - 1)
                   /\ fig.audio_data[j] = AudioVolume_dB(t, j - 1)

(***************************************************************************)
(* C14.  With a zero-row signal table every accessor completes and yields  *)
(* an empty result: the windowed view and the full-night view give the     *)
(* empty figure for any window index, and the window navigation reports a  *)
(* window count of 0.                                                      *)
(***************************************************************************)
C14_ZeroRowsGiveEmptyResults ==
    /\ (C10_Called /\ TableLen(signals) = 0) =>
           timeline_graph.figure = EmptyFigure
    /\ ("kind" \in DOMAIN timeline_graph /\ timeline_graph.kind = "windowed") =>
           TableLen(signals) > 0
    /\ ("kind" \in DOMAIN timeline_graph /\ timeline_graph.kind = "fullnight") =>
           TableLen(signals_fullnight) > 0
    /\ ("of" \in DOMAIN window_indicator
            /\ TableLen(PatientData(signals, patient_dropdown)) = 0) =>
           window_indicator.of = 0

\* With zero-row tables selected in full-night view, after a navigation
\* click that reported 0 windows, the graph callback gave the empty figure.
C14_Witness ==
    /\ TableLen(signals) = 0
    /\ TableLen(signals_fullnight) = 0
    /\ patient_dropdown = "101"
    /\ view_mode = "fullnight"
    /\ "of" \in DOMAIN window_indicator
    /\ window_indicator.of = 0
    /\ timeline_graph = EmptyFigure

(***************************************************************************)
(* C15.  Every record parse_nox_report produces satisfies the ranges of    *)
(* the data model: ahi, odi and arousal_index are >= 0; avg_spo2, min_spo2 *)
(* and supine_pct lie within 0 .. 100; sleep_time_hours is > 0.            *)
(***************************************************************************)
C15_RecordWithinRanges ==
    pc = "returned" =>
        /\ \A f \in {"ahi", "odi", "arousal_index"} :
               data[f].den > 0 /\ data[f].num >= 0
        /\ \A f \in {"avg_spo2", "min_spo2", "supine_pct"} :
               /\ data[f].den > 0
               /\ data[f].num >= 0
               /\ data[f].num <= 100 * data[f].den
        /\ data.sleep_time_hours.den > 0
        /\ data.sleep_time_hours.num > 0

(***************************************************************************)
(* SpecSessions: callbacks of concurrent sessions after the module load    *)
(*                                                                         *)
(* The server holds the module-level values (the three report records,     *)
(* nights_data_generated, the signal tables); the stores of a session      *)
(* (patient-dropdown, current-window, view-mode) live in its browser and   *)
(* reach a callback as its arguments.  A callback of the session is in     *)
(* flight between its request, which carries the arguments, and its        *)
(* response, which writes the outputs; in between, callbacks of a second   *)
(* session run.                                                            *)
(***************************************************************************)

\* try: nox = parse_nox_report(path)  except: nox = fallback
LoadedRecord(f, fallback) ==
    LET out == parse_nox_report(f)
    IN  IF out.raised = "none" THEN out.data ELSE fallback

\* The report files of this specification: all three full, or all three
\* missing.
SessionFiles ==
    {[n \in Nights |-> [status |-> "ok", report |-> AllPresent]],
     [n \in Nights |-> [status |-> "missing", report |-> AllAbsent]]}

\* The signal tables of this specification: 300 rows and 601 rows.
SessionTables ==
    {t \in Tables : t.kind = "uniform" /\ ((t.k = 1 /\ t.r = 0) \/ (t.k = 2 /\ t.r = 1))}

Callbacks == {"update_dashboard", "toggle_view_mode", "update_window",
              "update_timeline_graph"}

InitSessions ==
    /\ fs \in SessionFiles
    /\ lpc = "serving"
    /\ nox_baseline = LoadedRecord(fs["night1"], FallbackBaseline)
    /\ nox_night2 = LoadedRecord(fs["night2"], FallbackNight2)
    /\ nox_night3 = LoadedRecord(fs["night3"], FallbackNight3)
    /\ loaded_by = [n \in Nights |->
                       IF parse_nox_report(fs[n]).raised = "none" THEN "parse"
                       ELSE "fallback"]
    /\ nights_data_generated =
           create_night_variations(nox_baseline, nox_night2, nox_night3)
    /\ main_content = NoData
    /\ signals \in SessionTables
    /\ signals_fullnight \in {t \in Tables : t.k = 0 /\ t.r = 1 /\ t.kind = "uniform"}
    /\ patient_dropdown = "101"
    /\ current_window = 0
    /\ window_indicator = [number |-> 1, start_time |-> 0, end_time |-> 30]
    /\ view_mode = "windowed"
    /\ view_toggle_btn = "Full Night View"
    /\ n_clicks = 0
    /\ navigation_controls = "flex"
    /\ timeline_graph = create_manufacturing_timeline(PatientData(signals, "101"), 0)
    /\ pending = NoData
    /\ peer = [patient_id |-> "101", current_window |-> 0, view_mode |-> "windowed"]
    /\ ParseIdle
    /\ PositionIdle
    /\ V2Idle
    /\ JumpIdle

\* A window index kept in one place for all sessions: the one the second
\* session stored last.
Argument_current_window_shared(request) == peer.current_window

\* The current_window argument of a callback: the current-window store of the
\* session that sent the request.
Argument_current_window(request) == request.current_window

\* The session picks another patient in its dropdown.
SelectPatient ==
    /\ pending = NoData
    /\ \E pid \in PatientIds \ {patient_dropdown} : patient_dropdown' = pid
    /\ UNCHANGED <<n_clicks, signals, signals_fullnight, current_window, window_indicator,
                   view_mode, view_toggle_btn, navigation_controls, timeline_graph>>
    /\ UNCHANGED <<parseVars, loadVars, positionVars, sessionVars, v2Vars, jumpVars>>

\* The browser of the session sends a callback request with the values of its
\* stores.
Request ==
    /\ pending = NoData
    /\ \E cb \in Callbacks :
         \E button_id \in (IF cb = "update_window" THEN Triggers \ {"none"} ELSE {"none"}) :
            pending' = [callback |-> cb, button_id |-> button_id,
                        patient_id |-> patient_dropdown,
                        current_window |-> current_window,
                        view_mode |-> view_mode]
    /\ UNCHANGED peer
    /\ UNCHANGED <<parseVars, loadVars, windowVars, positionVars, v2Vars, jumpVars>>

\* The server runs the callback on the arguments of the request and the
\* session's browser writes the outputs.
Respond ==
    /\ pending # NoData
    /\ pending' = NoData
    /\ UNCHANGED peer
    /\ CASE pending.callback = "update_dashboard" ->
              /\ main_content' = update_dashboard(pending.patient_id)
              /\ UNCHANGED <<fs, lpc, nox_baseline, nox_night2, nox_night3,
                             loaded_by, nights_data_generated>>
              /\ UNCHANGED windowVars
         [] pending.callback = "toggle_view_mode" ->
              /\ LET out == toggle_view_mode(1, pending.view_mode)
                 IN  /\ view_mode' = out.mode
                     /\ view_toggle_btn' = out.button_text
                     /\ navigation_controls' = out.nav_style
              /\ UNCHANGED <<n_clicks, signals, signals_fullnight, patient_dropdown,
                             current_window, window_indicator, timeline_graph>>
              /\ UNCHANGED loadVars
         [] pending.callback = "update_window" ->
              /\ LET out == update_window(pending.button_id, pending.patient_id,
                                          Argument_current_window(pending))
                 IN  /\ current_window' = out.window
                     /\ window_indicator' = out.text
              /\ UNCHANGED <<n_clicks, signals, signals_fullnight, patient_dropdown,
                             view_mode, view_toggle_btn, navigation_controls,
                             timeline_graph>>
              /\ UNCHANGED loadVars
         [] pending.callback = "update_timeline_graph" ->
              /\ timeline_graph' =
                     update_timeline_graph(Argument_current_window(pending),
                                           pending.patient_id, pending.view_mode)
              /\ UNCHANGED <<n_clicks, signals, signals_fullnight, patient_dropdown,
                             current_window, window_indicator, view_mode,
                             view_toggle_btn, navigation_controls>>
              /\ UNCHANGED loadVars
    /\ UNCHANGED <<parseVars, positionVars, v2Vars, jumpVars>>

\* A callback of the second session, from request to response: update_window
\* on a click or on a change of its dropdown, or toggle_view_mode.
PeerCallback ==
    /\ \/ \E button_id \in Triggers \ {"none", "patient-dropdown"} :
             peer' = [peer EXCEPT !.current_window =
                         update_window(button_id, peer.patient_id,
                                       peer.current_window).window]
       \/ \E pid \in PatientIds \ {peer.patient_id} :
             peer' = [peer EXCEPT !.patient_id = pid,
                                  !.current_window =
                         update_window("patient-dropdown", pid,
                                       peer.current_window).window]
       \/ peer' = [peer EXCEPT !.view_mode = toggle_view_mode(1, peer.view_mode).mode]
    /\ UNCHANGED pending
    /\ UNCHANGED <<parseVars, loadVars, windowVars, positionVars, v2Vars, jumpVars>>

NextSessions ==
    \/ SelectPatient
    \/ Request
    \/ Respond
    \/ PeerCallback

SpecSessions == InitSessions /\ [][NextSessions]_vars

(***************************************************************************)
(* C16.  After the module load no callback modifies the three report       *)
(* records, the nights list or the signal tables: under any interleaving   *)
(* of the callbacks of concurrent sessions these values stay as loaded.    *)
(* Each callback's result depends only on its own arguments: a response    *)
(* writes what the callback gives on the arguments of its request, and a   *)
(* callback of the second session leaves the stores of the first alone.    *)
(***************************************************************************)
C16_ModuleValues ==
    <<nox_baseline, nox_night2, nox_night3, nights_data_generated, signals,
      signals_fullnight>>

C16_SessionStores ==
    <<patient_dropdown, current_window, window_indicator, view_mode,
      view_toggle_btn, navigation_controls, timeline_graph, main_content>>

C16_ResultOfOwnArguments ==
    (pending # NoData /\ pending' = NoData) =>
        /\ pending.callback = "update_dashboard" =>
              main_content' = update_dashboard(pending.patient_id)
        /\ pending.callback = "toggle_view_mode" =>
              view_mode' = toggle_view_mode(1, pending.view_mode).mode
        /\ pending.callback = "update_window" =>
              current_window' =
                  update_window(pending.button_id, pending.patient_id,
                                pending.current_window).window
        /\ pending.callback = "update_timeline_graph" =>
              timeline_graph' =
                  update_timeline_graph(pending.current_window,
                                        pending.patient_id, pending.view_mode)

C16_CallbacksLeaveModuleValues ==
    [][/\ C16_ModuleValues' = C16_ModuleValues
       /\ C16_ResultOfOwnArguments
       /\ peer' # peer => C16_SessionStores' = C16_SessionStores]_vars

\* Both sessions have run callbacks: the first has its dashboard and a
\* full-night graph and stands at window 1, the second stands at window 0 in
\* the other view mode, and the module-level values are as loaded.
C16_Witness ==
    /\ lpc = "serving"
    /\ peer # NoData
    /\ main_content # NoData
    /\ "kind" \in DOMAIN timeline_graph
    /\ timeline_graph.kind = "fullnight"
    /\ current_window = 1
    /\ peer.current_window = 0
    /\ peer.view_mode # view_mode
    /\ nox_baseline = LoadedRecord(fs["night1"], FallbackBaseline)
    /\ nights_data_generated =
           create_night_variations(nox_baseline, nox_night2, nox_night3)

(***************************************************************************)
(* C17.  create_night_variations returns a list of exactly three entries   *)
(* ordered baseline, CPAP, device; entry k takes its ahi, odi, sleep_time, *)
(* supine and awakenings only from the k-th input record; the input        *)
(* records are left unmodified; the device-only metrics (detaching,        *)
(* latch_percent, suction_bulb, suction_cup) are 0 for the baseline and    *)
(* the CPAP entry.                                                         *)
(***************************************************************************)
C17_EntryOf(entry, rec) ==
    /\ entry.ahi = rec.ahi
    /\ entry.odi = rec.odi
    /\ entry.sleep_time = rec.sleep_time_hours
    /\ entry.supine = rec.supine_pct
    /\ entry.awakenings = rec.awakenings

C17_NightsListFromInputs ==
    /\ [](lpc = "serving" =>
            /\ Len(nights_data_generated) = 3
            /\ C17_EntryOf(nights_data_generated[1], nox_baseline)
            /\ C17_EntryOf(nights_data_generated[2], nox_night2)
            /\ C17_EntryOf(nights_data_generated[3], nox_night3)
            /\ \A k \in {1, 2} :
                  \A m \in {"detaching", "latch_percent", "suction_bulb", "suction_cup"} :
                     RatIsZero(nights_data_generated[k][m]))
    /\ [][lpc = "variations" =>
            UNCHANGED <<nox_baseline, nox_night2, nox_night3>>]_vars

\* The list was built from three records whose ahi values differ from one
\* another.
C17_Witness ==
    /\ lpc = "serving"
    /\ Len(nights_data_generated) = 3
    /\ ~RatEq(nox_baseline.ahi, nox_night2.ahi)
    /\ ~RatEq(nox_night2.ahi, nox_night3.ahi)
    /\ ~RatEq(nox_baseline.ahi, nox_night3.ahi)
    /\ nights_data_generated[2].ahi = nox_night2.ahi
    /\ ~RatIsZero(nights_data_generated[3].latch_percent)

(***************************************************************************)
(* C18.  For each of the nine labelled lines, a double-quote character put *)
(* before the label does not change the extracted value: parse_nox_report  *)
(* returns the same record for a text and for the same text with a quote   *)
(* inserted before any label.                                              *)
(***************************************************************************)
C18_QuotedFields ==
    {f \in Fields : file.report[f].form \in {"quoted", "requoted"}}

\* The report with one quote taken away from each line that has one.
C18_WithoutTheQuote ==
    [f \in Fields |->
        IF file.report[f].form = "quoted"
        THEN [form |-> "tight", val |-> file.report[f].val]
        ELSE IF file.report[f].form = "requoted"
        THEN [form |-> "quoted", val |-> file.report[f].val]
        ELSE file.report[f]]

C18_QuoteBeforeLabelKeepsRecord ==
    (Returned /\ C18_QuotedFields # {}) =>
        data = ParseText(Render(C18_WithoutTheQuote))

\* As amended: the same, unless the quote is put before the label of an
\* Apneas index line that already starts with a quote.
C18_FirstQuoteKeepsRecord ==
    (Returned /\ C18_QuotedFields # {}
        /\ file.report["apnea_index"].form # "requoted") =>
        data = ParseText(Render(C18_WithoutTheQuote))

\* The full report with a quote before the label of the Apneas index line
\* was parsed: apnea_index is the 4.4 of the line.
C18_Witness ==
    /\ Returned
    /\ file.report = [AllPresent EXCEPT !["apnea_index"] =
                          [form |-> "quoted", val |-> "A"]]
    /\ RatEq(data.apnea_index, Rat(44, 10))
    /\ data = ParseText(Render(AllPresent))

(***************************************************************************)
(* C19.  For a patient table with at least 300 rows, after any sequence of *)
(* previous, next, -10, +10 and patient-change events the stored window    *)
(* index w satisfies 0 <= w <= floor(N / 300) - 1: a trailing partial      *)
(* window is never selected through navigation.                            *)
(***************************************************************************)
C19_IndexWithinWholeWindows ==
    (patient_dropdown # "None"
        /\ TableLen(PatientData(signals, patient_dropdown)) >= 300) =>
        /\ current_window >= 0
        /\ current_window <=
               (TableLen(PatientData(signals, patient_dropdown)) \div 300) - 1

\* On a table of 1199 rows the navigation stands at window 2, the last whole
\* window, and the indicator reports 3 windows.
C19_Witness ==
    /\ patient_dropdown = "101"
    /\ signals.k = 3 /\ signals.r = 299
    /\ current_window = 2
    /\ "of" \in DOMAIN window_indicator
    /\ window_indicator.number = 3
    /\ window_indicator.of = 3

(***************************************************************************)
(* C20.  For a patient table with fewer than 300 rows (zero rows           *)
(* included), every navigation event leaves the stored window index at 0:  *)
(* the index is never negative after any sequence of previous, next, -10   *)
(* and +10 clicks.                                                         *)
(***************************************************************************)
C20_ShortTableKeepsIndexZero ==
    (patient_dropdown # "None"
        /\ TableLen(PatientData(signals, patient_dropdown)) < 300) =>
        current_window = 0

(***************************************************************************)
(* C21.  Whenever update_window is triggered by a change of the patient    *)
(* dropdown, the stored window index becomes 0 whatever it was; when no    *)
(* patient is selected it returns the index 0 with the text                *)
(* 'Window 1 (0-30s)'.                                                     *)
(***************************************************************************)
C21_PatientChangeResetsWindow ==
    /\ [](patient_dropdown = "None" =>
             /\ current_window = 0
             /\ window_indicator = [number |-> 1, start_time |-> 0, end_time |-> 30])
    /\ [][ChangePatient =>
             /\ current_window' = 0
             /\ patient_dropdown' # "None" => window_indicator'.number = 1]_vars

\* On a table of three windows the dropdown was cleared: index 0 and the text
\* without a window count.
C21_Witness ==
    /\ signals.k = 3
    /\ patient_dropdown = "None"
    /\ current_window = 0
    /\ window_indicator = [number |-> 1, start_time |-> 0, end_time |-> 30]

\* The label of the view toggle button names the mode the other than the
\* current one.
C22_LabelNamesNextMode ==
    view_toggle_btn = IF view_mode = "windowed" THEN "Full Night View"
                                              ELSE "30s Windows"

C23_GraphByMode ==
    [][(/\ UNCHANGED <<patient_dropdown, current_window, view_mode, view_toggle_btn>>
        /\ "kind" \in DOMAIN timeline_graph'
        /\ UpdateTimelineGraph) =>
        /\ patient_dropdown = "None" => timeline_graph' = EmptyFigure
        /\ (patient_dropdown # "None" /\ view_mode = "fullnight") =>
              LET patient_data == PatientData(signals_fullnight, patient_dropdown)
              IN  /\ timeline_graph' = create_fullnight_timeline(patient_data)
                  /\ update_timeline_graph(current_window + 1, patient_dropdown,
                                            view_mode) = timeline_graph'
                  /\ TableLen(patient_data) > 0 =>
                        /\ timeline_graph'.kind = "fullnight"
                        /\ Len(timeline_graph'.rows) = TableLen(patient_data)
        /\ (patient_dropdown # "None" /\ view_mode # "fullnight") =>
              /\ timeline_graph' =
                     create_manufacturing_timeline(
                         PatientData(signals, patient_dropdown), current_window)
              /\ update_timeline_graph(current_window, patient_dropdown, "")
                     = timeline_graph'
    ]_vars

C23_Witness ==
    /\ signals.k = 3
    /\ signals_fullnight.r = 299
    /\ patient_dropdown = "101"
    /\ current_window = 2
    /\ view_mode = "fullnight"
    /\ "kind" \in DOMAIN timeline_graph
    /\ timeline_graph.kind = "fullnight"
    /\ Len(timeline_graph.rows) = 299

\* The status the SpO2 rule gives a change from baseline to device.
C24_StatusOfRise(baseline_value, device_value) ==
    LET delta == RatMinus(device_value, baseline_value)
    IN  IF RatLt(Rat(0, 1), delta) THEN "success"
        ELSE IF RatLt(delta, Rat(-2, 1)) THEN "danger"
        ELSE "warning"

(***************************************************************************)
(* C24.  For both SpO2 delta cards of the dashboard ('Mean SpO2' and       *)
(* 'Nadir SpO2') create_delta_kpi_card classifies a positive change from   *)
(* baseline to device as 'success', a change below -2 as 'danger' and any  *)
(* other change as 'warning'.                                              *)
(***************************************************************************)
C24_SpO2CardsBySpO2Rule ==
    (main_content # NoData /\ main_content.view = "dashboard") =>
        /\ main_content.mean_spo2_card.status =
               C24_StatusOfRise(nox_baseline.avg_spo2, nox_night3.avg_spo2)
        /\ main_content.nadir_spo2_card.status =
               C24_StatusOfRise(nox_baseline.min_spo2, nox_night3.min_spo2)

\* The part of C24 that holds: the 'Mean SpO2' card.
C24_MeanCardBySpO2Rule ==
    (main_content # NoData /\ main_content.view = "dashboard") =>
        main_content.mean_spo2_card.status =
            C24_StatusOfRise(nox_baseline.avg_spo2, nox_night3.avg_spo2)

(***************************************************************************)
(* SpecNavigation: the sidebar of prototype_v2.py and app_v2.py            *)
(*                                                                         *)
(* update_navigation has the n_clicks of the six sidebar items as inputs   *)
(* and prevent_initial_call=True: it runs once for every click, with the   *)
(* clicked item as ctx.triggered[0].                                       *)
(***************************************************************************)

\* The clicks on the sidebar the specification follows.
MaxNavClicks == 3

Variants == {"prototype_v2", "app_v2"}

\* update_navigation without its branch for 'nav-settings'.
update_navigation_prototype_v2_without_settings(triggered) ==
    IF triggered = "none"
    THEN [page |-> "overview", nav_classes |-> LayoutNavClasses]
    ELSE LET button_id == triggered
             hit == CASE button_id = "nav-overview" -> 1
                      [] button_id = "nav-patient-details" -> 2
                      [] button_id = "nav-sleep-analysis" -> 3
                      [] button_id = "nav-device-settings" -> 4
                      [] button_id = "nav-reports" -> 5
                      [] OTHER -> 1
         IN  [page |-> <<"overview", "patient-details", "sleep-analysis",
                         "device-settings", "reports", "settings">>[hit],
              nav_classes |-> [i \in 1..6 |-> IF i = hit THEN "nav-item active"
                                                        ELSE "nav-item"]]

\* update_navigation of prototype_v2.py; triggered is the id of the item in
\* ctx.triggered[0], or "none" for an empty ctx.triggered.
update_navigation_prototype_v2(triggered) ==
    IF triggered = "none"
    THEN [page |-> "overview", nav_classes |-> LayoutNavClasses]
    ELSE LET button_id == triggered
             hit == CASE button_id = "nav-overview" -> 1
                      [] button_id = "nav-patient-details" -> 2
                      [] button_id = "nav-sleep-analysis" -> 3
                      [] button_id = "nav-device-settings" -> 4
                      [] button_id = "nav-reports" -> 5
                      [] button_id = "nav-settings" -> 6
                      [] OTHER -> 1
         IN  [page |-> <<"overview", "patient-details", "sleep-analysis",
                         "device-settings", "reports", "settings">>[hit],
              nav_classes |-> [i \in 1..6 |-> IF i = hit THEN "nav-item active"
                                                        ELSE "nav-item"]]

\* update_navigation of app_v2.py
update_navigation_app_v2(triggered) ==
    IF triggered = "none"
    THEN [page |-> "overview", nav_classes |-> LayoutNavClasses]
    ELSE LET button_id == triggered
             hit == CASE button_id = "nav-overview" -> 1
                      [] button_id = "nav-patient-details" -> 2
                      [] button_id = "nav-sleep-analysis" -> 3
                      [] button_id = "nav-device-settings" -> 4
                      [] button_id = "nav-reports" -> 5
                      [] button_id = "nav-settings" -> 6
                      [] OTHER -> 1
         IN  [page |-> <<"overview", "patient-details", "sleep-analysis",
                         "device-settings", "reports", "settings">>[hit],
              nav_classes |-> [i \in 1..6 |-> IF i = hit THEN "nav-item active"
                                                        ELSE "nav-item"]]

update_navigation(v, triggered) ==
    IF v = "prototype_v2" THEN update_navigation_prototype_v2(triggered)
                          ELSE update_navigation_app_v2(triggered)

NavClicksTotal ==
    nav_n_clicks[1] + nav_n_clicks[2] + nav_n_clicks[3] + nav_n_clicks[4]
        + nav_n_clicks[5] + nav_n_clicks[6]

InitNavigation ==
    /\ variant \in Variants
    /\ current_page = "overview"
    /\ nav_classes = LayoutNavClasses
    /\ nav_n_clicks = [i \in 1..6 |-> 0]
    /\ OverviewIdle
    /\ ParseIdle
    /\ LoadIdle
    /\ WindowIdle
    /\ PositionIdle
    /\ SessionIdle
    /\ JumpIdle

\* A click on one of the six sidebar items.
ClickNavItem ==
    /\ NavClicksTotal < MaxNavClicks
    /\ \E i \in 1..6 :
         LET out == update_navigation(variant, NavItems[i])
         IN  /\ nav_n_clicks' = [nav_n_clicks EXCEPT ![i] = @ + 1]
             /\ current_page' = out.page
             /\ nav_classes' = out.nav_classes
    /\ UNCHANGED variant
    /\ UNCHANGED <<parseVars, loadVars, windowVars, positionVars, sessionVars,
                   overviewVars, jumpVars>>

NextNavigation == ClickNavItem

SpecNavigation == InitNavigation /\ [][NextNavigation]_vars

\* The page of each sidebar item, in the order of the layout.
C25_Pages == <<"overview", "patient-details", "sleep-analysis",
               "device-settings", "reports", "settings">>

(***************************************************************************)
(* C25.  In both page-navigation variants, after any sequence of clicks on *)
(* the six sidebar items exactly one item has the class 'nav-item active'  *)
(* (the others have 'nav-item'), it is the item clicked last, and the      *)
(* stored current page is that item's page; a click on the item that is    *)
(* already active changes neither the classes nor the page.                *)
(***************************************************************************)
C25_OneActiveItem ==
    /\ [](\E i \in 1..6 :
             /\ nav_classes[i] = "nav-item active"
             /\ \A j \in (1..6) \ {i} : nav_classes[j] = "nav-item"
             /\ current_page = C25_Pages[i])
    /\ [][\A i \in 1..6 :
             nav_n_clicks'[i] > nav_n_clicks[i] =>
                /\ nav_classes'[i] = "nav-item active"
                /\ current_page' = C25_Pages[i]
                /\ nav_classes[i] = "nav-item active" =>
                       UNCHANGED <<current_page, nav_classes>>]_vars

C25_Witness ==
    /\ variant = "app_v2"
    /\ nav_n_clicks[5] = 2
    /\ nav_n_clicks[6] = 1
    /\ nav_classes[5] = "nav-item active"
    /\ current_page = "reports"

(***************************************************************************)
(* SpecOverview: create_overview_page of prototype_v2.py                   *)
(*                                                                         *)
(* The merged signal table is a sequence of rows [Time, Airflow]; every    *)
(* row has PatientID 101.  Airflow is in tenths.                           *)
(***************************************************************************)

\* The rows of the longest table.
MaxRows == 2

OverviewRows ==
    {[Time |-> t, Airflow |-> Rat(a, 10)] : t \in {0, 30, 120}, a \in {1, 2, 5}}

RECURSIVE OverviewTablesOf(_)
OverviewTablesOf(n) ==
    IF n = 0 THEN {<< >>}
    ELSE LET shorter == OverviewTablesOf(n - 1)
         IN  shorter \cup {Append(t, r) : t \in {s \in shorter : Len(s) = n - 1},
                                          r \in OverviewRows}

OverviewTables == OverviewTablesOf(MaxRows)

\* patient_data['Time'].max() of a table that is not empty
TimeMax(patient_data) ==
    CHOOSE m \in {patient_data[i].Time : i \in 1..Len(patient_data)} :
        \A i \in 1..Len(patient_data) : patient_data[i].Time <= m

\* create_overview_page(patient_id), as far as the improvement percentage.
\* With a positive maximal time the AHI values are numpy floats and 0.0 / 0.0
\* is nan; otherwise ahi_with_device is the int 0, ahi_without_device the
\* float 0.0, and the division raises ZeroDivisionError.
create_overview_page(pid) ==
    LET patient_data == IF pid = "101" THEN signals_with_survey ELSE << >>
    IN  IF Len(patient_data) = 0 THEN [view |-> "No data available"]
        ELSE LET apnea_events ==
                     Cardinality({i \in 1..Len(patient_data) :
                                     RatLt(patient_data[i].Airflow, Rat(2, 10))})
                 time_max == TimeMax(patient_data)
                 ahi_with_device ==
                     IF time_max > 0 THEN Rat(apnea_events * 60, time_max)
                                     ELSE Rat(0, 1)
                 ahi_without_device ==
                     Rat(ahi_with_device.num * 15, ahi_with_device.den * 10)
             IN  IF RatIsZero(ahi_without_device)
                 THEN [view |-> IF time_max > 0 THEN "overview"
                                                ELSE "ZeroDivisionError",
                       ahi_with_device |-> ahi_with_device,
                       ahi_without_device |-> ahi_without_device,
                       improvement |-> NaN]
                 ELSE [view |-> "overview",
                       ahi_with_device |-> ahi_with_device,
                       ahi_without_device |-> ahi_without_device,
                       improvement |->
                           Rat((ahi_without_device.num * ahi_with_device.den
                                  - ahi_with_device.num * ahi_without_device.den) * 100,
                               ahi_without_device.num * ahi_with_device.den)]

InitOverview ==
    /\ signals_with_survey \in OverviewTables
    /\ overview_patient = "None"
    /\ overview_page = NoData
    /\ NavIdle
    /\ ParseIdle
    /\ LoadIdle
    /\ WindowIdle
    /\ PositionIdle
    /\ SessionIdle
    /\ JumpIdle

\* update_dashboard routes a selected patient to the overview page.
CreateOverviewPage ==
    /\ \E pid \in PatientIds \ {NoPatient} :
         /\ overview_patient' = pid
         /\ overview_page' = create_overview_page(pid)
    /\ UNCHANGED signals_with_survey
    /\ UNCHANGED <<parseVars, loadVars, windowVars, positionVars, sessionVars,
                   navVars, jumpVars>>

NextOverview == CreateOverviewPage

SpecOverview == InitOverview /\ [][NextOverview]_vars

(***************************************************************************)
(* C26.  In the overview page of prototype_v2 the improvement percentage   *)
(* (ahi_without_device - ahi_with_device) / ahi_without_device has a       *)
(* non-zero denominator for every patient table that is not empty: also    *)
(* for a table with no row whose airflow is below 0.2 and for a table      *)
(* whose maximal time is 0.                                                *)
(***************************************************************************)
C26_ImprovementDenominatorNonZero ==
    (overview_page # NoData /\ "ahi_without_device" \in DOMAIN overview_page) =>
        ~RatIsZero(overview_page.ahi_without_device)

(***************************************************************************)
(* C27.  Toggling the view mode leaves the stored window index unchanged:  *)
(* a click on the view toggle button writes neither the current-window     *)
(* store nor the window text, and the windowed view the graph callback     *)
(* draws after a switch back from the full-night view is the one of the    *)
(* index stored before the click.                                          *)
(***************************************************************************)
C27_ToggleKeepsWindow ==
    [][ToggleViewMode =>
        /\ current_window' = current_window
        /\ window_indicator' = window_indicator
        /\ view_mode' = "windowed" =>
              update_timeline_graph(current_window', patient_dropdown', view_mode')
                  = update_timeline_graph(current_window, patient_dropdown, "windowed")
    ]_vars

C27_Witness ==
    /\ signals.k = 3
    /\ patient_dropdown = "101"
    /\ n_clicks = 2
    /\ view_mode = "windowed"
    /\ current_window = 2
    /\ "kind" \in DOMAIN timeline_graph
    /\ timeline_graph.kind = "windowed"
    /\ timeline_graph.rows[1] = 600

(***************************************************************************)
(* SpecJumps: ten clicks on a single-step button next to one click on the  *)
(* ten-step button of the same direction                                   *)
(***************************************************************************)

\* The whole windows of the longest table of this specification.
MaxJumpWindows == 12

JumpTables ==
    {[k |-> k, r |-> r, kind |-> "uniform"] : k \in 0..MaxJumpWindows, r \in Remainders}

\* The indices update_window stores for a table: 0 up to the last whole
\* window, and -1 for a table without a whole window.
StoredIndices(t) ==
    IF max_window_of(TableLen(t)) < 0 THEN {-1, 0}
    ELSE 0..max_window_of(TableLen(t))

\* The ten-step button of the direction of a single-step button.
TenStepButton(button_id) ==
    IF button_id = "next-window-btn" THEN "next-10-window-btn"
                                     ELSE "prev-10-window-btn"

InitJumps ==
    /\ signals \in JumpTables
    /\ signals_fullnight = NoData
    /\ patient_dropdown = "101"
    /\ current_window \in StoredIndices(signals)
    /\ window_indicator = NoData
    /\ view_mode = "windowed"
    /\ view_toggle_btn = "Full Night View"
    /\ n_clicks = 0
    /\ navigation_controls = "flex"
    /\ timeline_graph = NoData
    /\ jump_button \in {"next-window-btn", "prev-window-btn"}
    /\ jump_from = current_window
    /\ jump_clicks = 0
    /\ jumped = NoData
    /\ ParseIdle
    /\ LoadIdle
    /\ PositionIdle
    /\ SessionIdle
    /\ V2Idle

\* One of ten consecutive clicks on the single-step button.
ClickSingleStep ==
    /\ jump_clicks < 10
    /\ jump_clicks' = jump_clicks + 1
    /\ LET out == update_window(jump_button, patient_dropdown, current_window)
       IN  /\ current_window' = out.window
           /\ window_indicator' = out.text
    /\ UNCHANGED <<jump_button, jump_from, jumped>>
    /\ UNCHANGED <<n_clicks, signals, signals_fullnight, patient_dropdown, view_mode,
                   view_toggle_btn, navigation_controls, timeline_graph>>
    /\ UNCHANGED <<parseVars, loadVars, positionVars, sessionVars, v2Vars>>

\* One click on the ten-step button, with the index of before the first
\* single-step click in the store.
ClickTenStep ==
    /\ jumped = NoData
    /\ jumped' = [window |-> update_window(TenStepButton(jump_button),
                                           patient_dropdown, jump_from).window]
    /\ UNCHANGED <<jump_button, jump_from, jump_clicks>>
    /\ UNCHANGED <<parseVars, loadVars, windowVars, positionVars, sessionVars, v2Vars>>

NextJumps ==
    \/ ClickSingleStep
    \/ ClickTenStep

SpecJumps == InitJumps /\ [][NextJumps]_vars

(***************************************************************************)
(* C28.  From every window index and every table size, one +10 click gives *)
(* the same stored index as ten consecutive next clicks, and one -10 click *)
(* the same stored index as ten consecutive previous clicks.               *)
(***************************************************************************)
C28_TenStepEqualsTenClicks ==
    (jump_clicks = 10 /\ jumped # NoData) => current_window = jumped.window

C28_Witness ==
    /\ signals.k = 12
    /\ jump_button = "next-window-btn"
    /\ jump_from = 1
    /\ jump_clicks = 10
    /\ jumped = [window |-> 11]
    /\ current_window = 11

====
